---- MODULE Spec2Model ----
(***************************************************************************)
(* Shift-allowance store and its reporting services.                       *)
(*                                                                         *)
(* The store holds ShiftAllowances rows (each with its ShiftMapping rows)  *)
(* and the ShiftsAmount rate table.  process_excel_upload,                 *)
(* update_corrected_rows and update_shift_service change the store;        *)
(* client_summary_service and client_comparison_service read it.           *)
(*                                                                         *)
(* Dates are first-of-month dates, held as year * 12 + (month - 1).        *)
(* Days are held in half-day units and amounts in whole currency units,    *)
(* so every product days * amount is an exact integer (the code computes   *)
(* it in binary floating point).                                           *)
(***************************************************************************)
EXTENDS Integers, Sequences, FiniteSets, TLC

VARIABLES
    store,      \* the shift_allowances table, each row with its shift_mapping rows
    rates,      \* the shifts_amount table
    last,       \* the last operation on the store, its input and its outcome
    ops,        \* the number of store operations so far
    call,       \* the request of the last reporting call
    result,     \* what the last reporting call returned or raised
    previous,   \* what the reporting call before the last returned or raised
    cache,      \* the entry of the latest-month cache under LATEST_MONTH_KEY
    uploaded_files  \* the status of each uploaded_files row, oldest first

vars == <<store, rates, last, ops, call, result, previous, cache, uploaded_files>>

NULL == "None"       \* None, for text values
NoDate == 0 - 1       \* None, for dates
NoKey == <<>>         \* None, for YYYY-MM and Mon'YY texts

(***************************************************************************)
(* Bounds of the model.                                                    *)
(***************************************************************************)
MaxOps == 2         \* store operations in one behaviour
MaxFileRows == 2    \* rows of one uploaded file or one correction request

(***************************************************************************)
(* Dates.                                                                  *)
(***************************************************************************)
MonthDate(y, m) == y * 12 + (m - 1)
YearOf(d) == d \div 12
MonthOf(d) == (d % 12) + 1

\* date.today().replace(day=1): the calendar month the services run in.
CurrentMonth == MonthDate(2024, 1)

\* calendar.monthrange(year, month)[1]
days_in_month(d) ==
    LET y == YearOf(d)
        m == MonthOf(d)
        leap == (y % 4 = 0 /\ y % 100 # 0) \/ y % 400 = 0
    IN  IF m = 2 THEN (IF leap THEN 29 ELSE 28)
        ELSE IF m \in {4, 6, 9, 11} THEN 30 ELSE 31

\* str.upper() on the shift labels of the model.
Upper(s) == IF s = "a" THEN "A" ELSE s

ShiftKeys == {"A", "B", "C", "PRIME"}
ShiftCols == <<"A", "B", "C", "PRIME">>

Sum4(f) == f["A"] + f["B"] + f["C"] + f["PRIME"]

(***************************************************************************)
(* The rate table.  load_shift_rates keys the rates by upper-cased shift   *)
(* type alone; with several rows of one type (one per payroll year) the    *)
(* row iterated last wins, and the query states no order.                  *)
(***************************************************************************)
load_shift_rates(rt) ==
    LET types == {Upper(r.shift_type) : r \in rt}
    IN  {f \in [types -> {r.amount : r \in rt}] :
            \A k \in types : \E r \in rt : Upper(r.shift_type) = k /\ r.amount = f[k]}

\* dict.get(key, 0)
RateGet(sr, shift) == IF shift \in DOMAIN sr THEN sr[shift] ELSE 0

(***************************************************************************)
(* Month cells.  An Excel month cell is Mon'YY, held as <<month, yy>>;     *)
(* <<0, 0>> stands for text that does not match the month pattern and <<0>> *)
(* for a cell of white space only.                                         *)
(***************************************************************************)
BadText == <<0, 0>>
SpaceText == <<0>>
MonthCellOk(v) == Len(v) = 2 /\ v[1] \in 1..12 /\ v[2] \in 0..99

\* upload_service.parse_month_format: 2000 + int(yy)
parse_month_format(v) == IF MonthCellOk(v) THEN MonthDate(2000 + v[2], v[1]) ELSE NoDate

\* upload_service.parse_yyyy_mm: strptime("%b'%y"), whose %y puts 69..99 in the 1900s
parse_mon_yy(v) ==
    IF MonthCellOk(v)
    THEN MonthDate((IF v[2] <= 68 THEN 2000 ELSE 1900) + v[2], v[1])
    ELSE NoDate

(***************************************************************************)
(* The unique constraint uix_payroll_employee of shift_allowances: a flush *)
(* that inserts sa fails when a row with its triple is already there.  A   *)
(* NULL month equals no month to the constraint.                           *)
(***************************************************************************)
SameTriple(a, b) ==
    /\ a.emp_id = b.emp_id
    /\ a.duration_month = b.duration_month
    /\ a.payroll_month = b.payroll_month

uix_payroll_employee(st, sa) ==
    \A r \in st : ~(/\ SameTriple(r, sa)
                    /\ sa.duration_month # NoDate
                    /\ sa.payroll_month # NoDate)

(***************************************************************************)
(* process_excel_upload                                                    *)
(***************************************************************************)
\* validate_excel_data: the errors of one row.
RowHasError(row) ==
    \/ \E k \in ShiftKeys : row.days[k] < 0
    \/ row.total_days < 0
    \/ row.duration_month # SpaceText /\ ~MonthCellOk(row.duration_month)
    \/ row.payroll_month # SpaceText /\ ~MonthCellOk(row.payroll_month)
    \/ Sum4(row.days) # row.total_days

RECURSIVE CleanRows(_)
CleanRows(file) ==
    IF file = <<>> THEN <<>>
    ELSE IF RowHasError(Head(file)) THEN CleanRows(Tail(file))
         ELSE <<Head(file)>> \o CleanRows(Tail(file))

delete_existing_emp_month(st, emp_id, client, duration_month, payroll_month) ==
    {r \in st : ~(/\ r.emp_id = emp_id
                  /\ r.client = client
                  /\ r.duration_month = duration_month
                  /\ r.payroll_month = payroll_month)}

\* The ShiftMapping rows written for the non-zero day columns of a row.
NewMappings(days, sr) ==
    {[shift_type |-> k, days |-> days[k], total_allowance |-> days[k] * RateGet(sr, k)] :
        k \in {c \in ShiftKeys : days[c] > 0}}

UploadRecord(row, sr) ==
    [emp_id |-> row.emp_id,
     client |-> row.client,
     department |-> row.department,
     duration_month |-> parse_month_format(row.duration_month),
     payroll_month |-> parse_month_format(row.payroll_month),
     shift_mappings |-> NewMappings(row.days, sr)]

\* Lines 265-297: delete, insert and flush, row by row, in one transaction.
\* at is the row whose flush failed, or the last row ingested.
RECURSIVE IngestRows(_, _, _)
IngestRows(st, rows, sr) ==
    LET row == Head(rows)
        sa == UploadRecord(row, sr)
        st1 == delete_existing_emp_month(st, sa.emp_id, sa.client,
                                         sa.duration_month, sa.payroll_month)
    IN  IF ~uix_payroll_employee(st1, sa) THEN [ok |-> FALSE, store |-> st, at |-> row]
        ELSE IF Len(rows) = 1 THEN [ok |-> TRUE, store |-> st1 \cup {sa}, at |-> row]
        ELSE IngestRows(st1 \cup {sa}, Tail(rows), sr)

\* The outcome of process_excel_upload(file): the status, the store left and
\* the row the outcome turned on.
UploadOutcome(st, file, sr) ==
    LET clean == CleanRows(file)
        done == IngestRows(st, clean, sr)
    IN  IF clean = <<>> THEN [status |-> 400, store |-> st, at |-> file[Len(file)]]
        ELSE IF ~done.ok THEN [status |-> 500, store |-> st, at |-> done.at]
        ELSE IF Len(clean) < Len(file)
             THEN [status |-> 400, store |-> done.store, at |-> done.at]
             ELSE [status |-> 200, store |-> done.store, at |-> done.at]

\* Line 299: TRUE when the call reaches db.commit().
UploadCommitted(st, file, sr) ==
    CleanRows(file) # <<>> /\ IngestRows(st, CleanRows(file), sr).ok

\* Lines 249-252: the duration months of the clean rows.
excel_duration_months(file) ==
    {parse_month_format(CleanRows(file)[i].duration_month) : i \in 1..Len(CleanRows(file))}
        \ {NoDate}

\* The cache holds nothing under the key (NoKey), a dict with "_cached_month"
\* (the YYYY-MM key), or a dict without it.
CacheWithoutMonth == <<0>>
CacheEntries == {NoKey, <<2023, 12>>, <<2024, 1>>, CacheWithoutMonth}

\* Lines 35-56
should_invalidate_latest_month_cache(cached, months) ==
    IF cached = NoKey THEN FALSE
    ELSE IF cached = CacheWithoutMonth THEN TRUE
    ELSE \E m \in months : m >= MonthDate(cached[1], cached[2])

\* Lines 206-212 write the uploaded_files row with status "processing"; no
\* line of lines 214-325 assigns the status again, whatever the outcome.
UploadedFileStatus(status) == "processing"

(***************************************************************************)
(* update_corrected_rows                                                   *)
(***************************************************************************)
\* validate_shift_days: TRUE when it raises.  Days are in half-day units, so
\* each value is a half-day multiple.
ShiftDaysRejected(row) ==
    \/ \E k \in ShiftKeys : row.days[k] < 0
    \/ Sum4(row.days) <= 0

\* Lines 428-509: one corrected row, committed on its own or rolled back.
CorrectOneRow(st, row, sr) ==
    LET duration_month == parse_mon_yy(row.duration_month)
        payroll_month == parse_mon_yy(row.payroll_month)
        found == {r \in st : /\ r.emp_id = row.emp_id
                             /\ r.client = row.client
                             /\ r.duration_month = duration_month
                             /\ r.payroll_month = payroll_month}
        fresh == [emp_id |-> row.emp_id,
                  client |-> row.client,
                  department |-> NULL,
                  duration_month |-> duration_month,
                  payroll_month |-> payroll_month,
                  shift_mappings |-> {}]
        written == [emp_id |-> row.emp_id,
                    client |-> row.client,
                    department |-> row.department,
                    duration_month |-> duration_month,
                    payroll_month |-> payroll_month,
                    shift_mappings |-> NewMappings(row.days, sr)]
    IN  IF duration_month = NoDate \/ payroll_month = NoDate THEN [ok |-> FALSE, store |-> st]
        ELSE IF ShiftDaysRejected(row) THEN [ok |-> FALSE, store |-> st]
        ELSE IF Sum4(row.days) > 2 * days_in_month(duration_month)
             THEN [ok |-> FALSE, store |-> st]
        ELSE IF found = {} /\ ~uix_payroll_employee(st, fresh)
             THEN [ok |-> FALSE, store |-> st]
        ELSE [ok |-> TRUE, store |-> (st \ found) \cup {written}]

RECURSIVE CorrectRows(_, _, _)
CorrectRows(st, rows, sr) ==
    IF rows = <<>> THEN [failed |-> 0, store |-> st]
    ELSE LET one == CorrectOneRow(st, Head(rows), sr)
             rest == CorrectRows(one.store, Tail(rows), sr)
         IN  [failed |-> rest.failed + (IF one.ok THEN 0 ELSE 1), store |-> rest.store]

\* The outcome of update_corrected_rows(corrected_rows).
CorrectOutcome(st, rows, sr) ==
    LET done == CorrectRows(st, rows, sr)
    IN  IF rows = <<>> THEN [status |-> 400, store |-> st]
        ELSE IF done.failed > 0 THEN [status |-> 400, store |-> done.store]
        ELSE [status |-> 200, store |-> done.store]

(***************************************************************************)
(* update_shift_service                                                    *)
(***************************************************************************)
\* A YYYY-MM string is held as <<year, month>>; <<0, 0>> is text that fails
\* strptime("%Y-%m").
YearMonthOk(k) == Len(k) = 2 /\ k[1] \in 1..9999 /\ k[2] \in 1..12
parse_year_month(k) == IF YearMonthOk(k) THEN MonthDate(k[1], k[2]) ELSE NoDate

\* strftime("%Y-%m")
month_key_from_date(d) == <<YearOf(d), MonthOf(d)>>

UpdateFields == {"shift_a", "shift_b", "shift_c", "prime"}
key_map(k) ==
    CASE k = "shift_a" -> "A"
      [] k = "shift_b" -> "B"
      [] k = "shift_c" -> "C"
      [] k = "prime" -> "PRIME"
      [] OTHER -> k

\* A value of the updates dict is a text: [t |-> "num", n |-> half days] for a
\* numeric text, [t |-> "none"] for None or blank, [t |-> "negzero"] for "-0",
\* [t |-> "text"] for anything float() rejects.
\* parse_shift_value and validate_half_day: TRUE when one of them raises.
ShiftValueRejected(v) ==
    \/ v.t = "negzero"
    \/ v.t = "text"
    \/ v.t = "num" /\ v.n < 0

parse_shift_value(v) == IF v.t = "num" THEN v.n ELSE 0

\* The mappings of rec after lines 279-294.
UpdatedMappings(rec, mapped, sr) ==
    LET kept == {m \in rec.shift_mappings : Upper(m.shift_type) \notin DOMAIN mapped}
        new == {[shift_type |-> (IF \E m \in rec.shift_mappings : Upper(m.shift_type) = k
                                 THEN (CHOOSE m \in rec.shift_mappings :
                                          Upper(m.shift_type) = k).shift_type
                                 ELSE k),
                 days |-> mapped[k],
                 total_allowance |-> mapped[k] * RateGet(sr, k)] : k \in DOMAIN mapped}
    IN  kept \cup new

\* Lines 262-266: the records q.first() may return.
UpdateCandidates(st, emp_id, duration_dt) ==
    {r \in st : /\ r.emp_id = emp_id
                /\ r.duration_month # NoDate
                /\ YearOf(r.duration_month) = YearOf(duration_dt)
                /\ MonthOf(r.duration_month) = MonthOf(duration_dt)}

RECURSIVE TotalDays(_)
TotalDays(ms) ==
    IF ms = {} THEN 0
    ELSE LET m == CHOOSE x \in ms : TRUE IN m.days + TotalDays(ms \ {m})

RECURSIVE SumOver(_, _)
SumOver(f, ks) ==
    IF ks = {} THEN 0
    ELSE LET k == CHOOSE x \in ks : TRUE IN f[k] + SumOver(f, ks \ {k})

\* The outcome of update_shift_service; recs holds the record q.first()
\* returned and is empty when the query matched nothing.
UpdateShiftOutcome(st, req, sr, recs) ==
    LET unknown == DOMAIN req.updates \ UpdateFields
        mapped == [s \in {key_map(k) : k \in DOMAIN req.updates} |->
                       parse_shift_value(
                           req.updates[CHOOSE k \in DOMAIN req.updates : key_map(k) = s])]
        payroll_dt == parse_year_month(req.payroll_month)
        duration_dt == parse_year_month(req.duration_month)
        max_days == 2 * days_in_month(duration_dt)
        rec == CHOOSE r \in recs : TRUE
        rec1 == [rec EXCEPT !.shift_mappings = UpdatedMappings(rec, mapped, sr)]
        st1 == (st \ {rec}) \cup {rec1}
    IN  IF unknown # {} THEN [status |-> 400, store |-> st]
        ELSE IF \E k \in DOMAIN req.updates : ShiftValueRejected(req.updates[k])
             THEN [status |-> 400, store |-> st]
        ELSE IF payroll_dt = NoDate THEN [status |-> 400, store |-> st]
        ELSE IF req.duration_month = NoKey \/ duration_dt = NoDate
             THEN [status |-> 400, store |-> st]
        ELSE IF duration_dt > CurrentMonth \/ payroll_dt > CurrentMonth
             THEN [status |-> 400, store |-> st]
        ELSE IF req.duration_month = req.payroll_month THEN [status |-> 400, store |-> st]
        ELSE IF payroll_dt < duration_dt THEN [status |-> 400, store |-> st]
        ELSE IF SumOver(mapped, DOMAIN mapped) > max_days THEN [status |-> 400, store |-> st]
        ELSE IF recs = {} THEN [status |-> 404, store |-> st]
        ELSE IF TotalDays(rec1.shift_mappings) > max_days
             THEN [status |-> 400, store |-> st1]
        ELSE [status |-> 200, store |-> st1]

(***************************************************************************)
(* The inputs of the store operations.                                     *)
(***************************************************************************)
Emps == {"E1", "E2"}
Clients == {"Acme", "Beta"}

Days4(a, b, c, p) ==
    [k \in ShiftKeys |-> CASE k = "A" -> a [] k = "B" -> b [] k = "C" -> c [] OTHER -> p]

DayVectors == {Days4(2, 0, 0, 0), Days4(1, 0, 0, 3)}

\* <<duration_month, payroll_month>> cells: payroll later than duration (twice),
\* the same month, and payroll earlier than duration.
MonthCells ==
    {<<<<12, 23>>, <<1, 24>>>>, <<<<12, 23>>, <<2, 24>>>>,
     <<<<12, 23>>, <<12, 23>>>>, <<<<1, 24>>, <<12, 23>>>>}

ExcelRow(e, c, dm, pm, days, total) ==
    [emp_id |-> e, client |-> c, department |-> "IT",
     duration_month |-> dm, payroll_month |-> pm, days |-> days, total_days |-> total]

\* E1 has rows at every client and for every pair of months, E2 at Acme for
\* one pair.
ValidRows ==
    {ExcelRow("E1", c, mm[1], mm[2], d, Sum4(d)) :
        c \in Clients, mm \in MonthCells, d \in DayVectors} \cup
    {ExcelRow("E2", "Acme", <<12, 23>>, <<1, 24>>, d, Sum4(d)) : d \in DayVectors}

\* Rows the validations turn on: a malformed month, a month cell of white
\* space at either client, a negative day count and a row of no shift days at
\* all.
SpecialRows ==
    {ExcelRow("E1", "Acme", BadText, <<1, 24>>, Days4(2, 0, 0, 0), 2),
     ExcelRow("E1", "Acme", SpaceText, <<1, 24>>, Days4(2, 0, 0, 0), 2),
     ExcelRow("E1", "Beta", SpaceText, <<1, 24>>, Days4(2, 0, 0, 0), 2),
     ExcelRow("E1", "Acme", <<12, 23>>, <<1, 24>>, Days4(0 - 1, 0, 0, 0), 0 - 1),
     ExcelRow("E2", "Acme", <<12, 23>>, <<1, 24>>, Days4(0, 0, 0, 0), 0)}

ExcelRows == ValidRows \cup SpecialRows

\* Files and requests of several rows start with a row of E1 at Acme for
\* December with the first day vector; a later row is a special row or names
\* the employee and months of the first row.
AnchorRows ==
    {r \in ValidRows : /\ r.emp_id = "E1" /\ r.client = "Acme" /\ r.days["A"] = 2
                       /\ r.duration_month = <<12, 23>>
                       /\ r.payroll_month \in {<<1, 24>>, <<12, 23>>}}

Related(r1) ==
    {r \in ExcelRows :
        \/ r \in SpecialRows
        \/ /\ r.emp_id = r1.emp_id
           /\ r.duration_month = r1.duration_month
           /\ r.payroll_month = r1.payroll_month}

Files ==
    {<<r>> : r \in ExcelRows} \cup
    UNION {UNION {{<<r1>> \o t : t \in [1..(n - 1) -> Related(r1)]} : r1 \in AnchorRows} :
              n \in 2..MaxFileRows}

Num(n) == [t |-> "num", n |-> n]
Blank == [t |-> "none", n |-> 0]
NotANumber == [t |-> "text", n |-> 0]

UpdateDicts ==
    {[k \in {"shift_a"} |-> Num(3)],
     [k \in {"shift_a", "shift_b"} |-> IF k = "shift_a" THEN Num(0) ELSE Num(60)],
     [k \in {"shift_c"} |-> NotANumber],
     [k \in {"prime"} |-> Blank],
     [k \in {"shift_a"} |-> Num(64)]}

UpdateRequest(e, dm, pm, u) ==
    [emp_id |-> e, duration_month |-> dm, payroll_month |-> pm, updates |-> u]

\* Requests whose months pass every check, with each updates dict, and requests
\* for E1 that fail one of the month checks.
UpdateRequests ==
    {UpdateRequest(e, <<2023, 12>>, <<2024, 1>>, u) : e \in Emps, u \in UpdateDicts} \cup
    {UpdateRequest("E1", mm[1], mm[2], [k \in {"shift_a"} |-> Num(3)]) :
        mm \in {<<<<2023, 12>>, <<2023, 12>>>>, <<<<2024, 1>>, <<2023, 12>>>>,
                <<<<2023, 12>>, <<2024, 2>>>>, <<NoKey, <<2024, 1>>>>,
                <<<<2023, 12>>, BadText>>}}

\* The rate table of the store operations: shifts A and B have a rate, shifts
\* C and PRIME have none.
Rate(s, y, a) == [shift_type |-> s, payroll_year |-> y, amount |-> a]
StoreRates == {Rate("A", 2024, 5), Rate("B", 2024, 7)}

TripleIn(st, e, dm, pm) ==
    \E r \in st : r.emp_id = e /\ r.duration_month = dm /\ r.payroll_month = pm

\* No reporting service has been called.
NoCall == [service |-> "none"]
NoResult == [status |-> 0, body |-> <<>>, rows |-> <<>>]

(***************************************************************************)
(* The store operations as actions.                                        *)
(***************************************************************************)
Init ==
    /\ store = {}
    /\ rates = StoreRates
    /\ last = [op |-> "none", status |-> 0, row |-> <<>>, existed |-> FALSE,
               skipped |-> FALSE]
    /\ ops = 0
    /\ call = NoCall
    /\ result = NoResult
    /\ previous = NoResult
    /\ cache \in CacheEntries
    /\ uploaded_files = <<>>

process_excel_upload ==
    \E file \in Files : \E sr \in load_shift_rates(rates) :
        LET out == UploadOutcome(store, file, sr)
        IN  /\ ops < MaxOps
            /\ ops' = ops + 1
            /\ store' = out.store
            /\ last' = [op |-> "upload", status |-> out.status, row |-> out.at,
                        existed |-> TripleIn(store, out.at.emp_id,
                                             parse_month_format(out.at.duration_month),
                                             parse_month_format(out.at.payroll_month)),
                        skipped |-> Len(CleanRows(file)) < Len(file)]
            /\ uploaded_files' = Append(uploaded_files, UploadedFileStatus(out.status))
            /\ cache' = IF UploadCommitted(store, file, sr)
                            /\ should_invalidate_latest_month_cache(
                                   cache, excel_duration_months(file))
                         THEN NoKey ELSE cache
            /\ UNCHANGED <<rates, call, result, previous>>

update_corrected_rows ==
    \E rows \in Files \cup {<<>>} : \E sr \in load_shift_rates(rates) :
        LET out == CorrectOutcome(store, rows, sr)
            at == IF rows = <<>> THEN <<>> ELSE rows[Len(rows)]
        IN  /\ ops < MaxOps
            /\ ops' = ops + 1
            /\ store' = out.store
            /\ last' = [op |-> "correct", status |-> out.status, row |-> at,
                        existed |-> /\ rows # <<>>
                                    /\ TripleIn(store, at.emp_id,
                                                parse_mon_yy(at.duration_month),
                                                parse_mon_yy(at.payroll_month)),
                        skipped |-> FALSE]
            /\ UNCHANGED <<rates, call, result, previous, cache, uploaded_files>>

update_shift_service ==
    \E req \in UpdateRequests : \E sr \in load_shift_rates(rates) :
        LET cands == IF YearMonthOk(req.duration_month)
                     THEN UpdateCandidates(store, req.emp_id,
                                           parse_year_month(req.duration_month))
                     ELSE {}
        IN  \E recs \in (IF cands = {} THEN {{}} ELSE {{r} : r \in cands}) :
                LET out == UpdateShiftOutcome(store, req, sr, recs)
                IN  /\ ops < MaxOps
                    /\ ops' = ops + 1
                    /\ store' = out.store
                    /\ last' = [op |-> "update", status |-> out.status, row |-> req,
                                existed |-> recs # {}, skipped |-> FALSE]
                    /\ UNCHANGED <<rates, call, result, previous, cache, uploaded_files>>

Next ==
    \/ process_excel_upload
    \/ update_corrected_rows
    \/ update_shift_service

Spec == Init /\ [][Next]_vars

(***************************************************************************)
(* The reporting query: shift_allowances joined to shift_mapping and to    *)
(* shifts_amount on the shift type and the payroll year.  A mapping with   *)
(* no rate row for its type and year joins to nothing; one with several    *)
(* joins to each.                                                          *)
(***************************************************************************)
JoinedRows(st, rt) ==
    UNION {UNION {{[duration_month |-> r.duration_month,
                    payroll_month |-> r.payroll_month,
                    client |-> r.client,
                    department |-> r.department,
                    emp_id |-> r.emp_id,
                    shift_type |-> m.shift_type,
                    days |-> m.days,
                    amount |-> a.amount] :
                      a \in {x \in rt : /\ x.shift_type = m.shift_type
                                        /\ r.payroll_month # NoDate
                                        /\ x.payroll_year = YearOf(r.payroll_month)}} :
                  m \in r.shift_mappings} :
           r \in st}

\* The orders in which a query without ORDER BY may return a set of rows.
RECURSIVE Orders(_)
Orders(S) ==
    IF S = {} THEN {<<>>}
    ELSE UNION {{<<x>> \o t : t \in Orders(S \ {x})} : x \in S}

\* str.lower() and (value or "").strip() on the names of the model.
Lower(s) ==
    CASE s = "Acme" -> "acme"
      [] s = "Beta" -> "beta"
      [] s = "IT" -> "it"
      [] s = "HR" -> "hr"
      [] OTHER -> s

OrEmptyStrip(s) == IF s = NULL THEN "" ELSE s

(***************************************************************************)
(* client_summary_service                                                  *)
(***************************************************************************)
\* validate_year: TRUE when it raises.
YearRejected(year) == year <= 0 \/ year > YearOf(CurrentMonth)

\* quarter_to_months; <<>> when it raises.  q.upper().strip() is taken on the
\* labels of the model.
quarter_to_months(q) ==
    LET label == IF q = " q4" THEN "Q4" ELSE q
    IN  CASE label = "Q1" -> <<1, 2, 3>>
          [] label = "Q2" -> <<4, 5, 6>>
          [] label = "Q3" -> <<7, 8, 9>>
          [] label = "Q4" -> <<10, 11, 12>>
          [] OTHER -> <<>>

\* month_range(start, end), for start <= end
month_range(start, end) == [i \in 1..(end - start + 1) |-> start + i - 1]

SeqToSet(q) == {q[i] : i \in 1..Len(q)}

empty_shift_totals == [k \in ShiftKeys |-> 0]

NewPeriodBlock ==
    [clients |-> <<>>,
     month_total |-> [total_head_count |-> 0, sub |-> empty_shift_totals,
                      total_allowance |-> 0]]

NewClientBlock ==
    [sub |-> empty_shift_totals, departments |-> <<>>,
     client_head_count |-> 0, client_total |-> 0]

NewDeptBlock ==
    [sub |-> empty_shift_totals, dept_total |-> 0, employees |-> <<>>,
     dept_head_count |-> 0]

NoDataDeptBlock ==
    [sub |-> empty_shift_totals, dept_total |-> 0, employees |-> <<>>,
     dept_head_count |-> 0, error |-> "No data available"]

MessageBlock == [message |-> "No data found"]

\* A dict entry that is written once and never updated.
PutIfAbsent(f, k, v) == IF k \in DOMAIN f THEN f ELSE f @@ (k :> v)

\* The dict after the entry under k, created by setdefault when it was missing,
\* has been updated to v; GetOr is the entry before the update.
Put(f, k, v) == IF k \in DOMAIN f THEN [f EXCEPT ![k] = v] ELSE f @@ (k :> v)
GetOr(f, k, d) == IF k \in DOMAIN f THEN f[k] ELSE d

\* Lines 232-238: the period a row falls in.
PeriodKeyOf(row, quarter_map, by_quarter) ==
    IF by_quarter
    THEN CHOOSE q \in DOMAIN quarter_map : row.duration_month \in SeqToSet(quarter_map[q])
    ELSE month_key_from_date(row.duration_month)

\* Every row opens an employee entry of its own.
AlwaysNewEmployee(employees, emp_id) == TRUE

\* Lines 270-282: whether the row opens a new employee entry, which adds one to
\* the three head counts.
IsNewEmployee(employees, emp_id) == \A i \in 1..Len(employees) : employees[i].emp_id # emp_id

\* Lines 240-291: one row of the query added to the response.  The row's shift
\* type is one of A, B, C, PRIME.
PopulateRow(response, row, period_key) ==
    LET month_block == IF "message" \in DOMAIN response[period_key]
                       THEN NewPeriodBlock ELSE response[period_key]
        client_key == OrEmptyStrip(row.client)
        dept_key == OrEmptyStrip(row.department)
        stype == row.shift_type
        total == row.days * row.amount
        client_block == GetOr(month_block.clients, client_key, NewClientBlock)
        dept_block == GetOr(client_block.departments, dept_key, NewDeptBlock)
        fresh == IsNewEmployee(dept_block.employees, row.emp_id)
        one == IF fresh THEN 1 ELSE 0
        employees == IF fresh
                     THEN Append(dept_block.employees,
                                 [emp_id |-> row.emp_id, sub |-> empty_shift_totals,
                                  total |-> 0])
                     ELSE dept_block.employees
        i == CHOOSE j \in 1..Len(employees) : employees[j].emp_id = row.emp_id
        dept1 == [dept_block EXCEPT
                    !.employees = [employees EXCEPT ![i].sub[stype] = @ + total,
                                                    ![i].total = @ + total],
                    !.dept_head_count = @ + one,
                    !.sub[stype] = @ + total,
                    !.dept_total = @ + total]
        client1 == [client_block EXCEPT
                      !.departments = Put(client_block.departments, dept_key, dept1),
                      !.client_head_count = @ + one,
                      !.sub[stype] = @ + total,
                      !.client_total = @ + total]
        month1 == [month_block EXCEPT
                     !.clients = Put(month_block.clients, client_key, client1),
                     !.month_total.total_head_count = @ + one,
                     !.month_total.sub[stype] = @ + total,
                     !.month_total.total_allowance = @ + total]
    IN  [response EXCEPT ![period_key] = month1]

\* Lines 230-291 over the first n rows.  emp[stype] raises KeyError for a
\* shift type that is not A, B, C or PRIME: ok is then FALSE.
RECURSIVE Populate(_, _, _, _, _)
Populate(response, rows, n, quarter_map, by_quarter) ==
    IF n = 0 THEN [ok |-> TRUE, response |-> response]
    ELSE LET before == Populate(response, rows, n - 1, quarter_map, by_quarter)
             row == rows[n]
         IN  IF ~before.ok \/ row.shift_type \notin ShiftKeys
             THEN [ok |-> FALSE, response |-> before.response]
             ELSE [ok |-> TRUE,
                   response |-> PopulateRow(before.response, row,
                                            PeriodKeyOf(row, quarter_map, by_quarter))]

\* Lines 293-314: the listed clients and departments added to the periods that
\* have a "clients" entry.
\* Every listed department replaced by the placeholder.
RECURSIVE OverwriteDepartments(_, _)
OverwriteDepartments(departments, dept_list) ==
    IF dept_list = <<>> THEN departments
    ELSE OverwriteDepartments(Put(departments, Head(dept_list), NoDataDeptBlock),
                              Tail(dept_list))

RECURSIVE FillDepartments(_, _)
FillDepartments(departments, dept_list) ==
    IF dept_list = <<>> THEN departments
    ELSE FillDepartments(
             IF Head(dept_list) \in DOMAIN departments THEN departments
             ELSE departments @@ (Head(dept_list) :> NoDataDeptBlock),
             Tail(dept_list))

RECURSIVE FillClients(_, _, _)
FillClients(clients, clients_payload, names) ==
    IF names = {} THEN clients
    ELSE LET client_name == CHOOSE c \in names : TRUE
             client_block == GetOr(clients, client_name, NewClientBlock)
             filled == [client_block EXCEPT
                          !.departments = FillDepartments(client_block.departments,
                                                          clients_payload[client_name])]
         IN  FillClients(Put(clients, client_name, filled), clients_payload,
                         names \ {client_name})

ZeroFill(response, clients_payload) ==
    [p \in DOMAIN response |->
        IF "clients" \notin DOMAIN response[p] THEN response[p]
        ELSE [response[p] EXCEPT
                !.clients = FillClients(response[p].clients, clients_payload,
                                        DOMAIN clients_payload)]]

\* parse_yyyy_mm of the reporting services: strptime(value, "%Y-%m")
parse_yyyy_mm(value) == IF YearMonthOk(value) THEN MonthDate(value[1], value[2]) ELSE NoDate

\* func.max(ShiftAllowances.duration_month), NoDate for no row
MaxDate(S) == IF S = {} THEN NoDate ELSE CHOOSE d \in S : \A e \in S : e <= d

latest_duration_month(st) ==
    MaxDate({r.duration_month : r \in st} \ {NoDate})

latest_duration_month_of_year(st, year) ==
    MaxDate({r.duration_month : r \in {x \in st : x.duration_month # NoDate
                                                   /\ YearOf(x.duration_month) = year}})

\* The payload's "clients": absent, the text ALL, a mapping of client to
\* department list, or anything else.
ClientsFalsy(cp) == cp.kind = "none" \/ (cp.kind = "dict" /\ DOMAIN cp.map = {})

\* Lines 101-104.  order is the order of the payload's keys; of the keys that
\* differ only by case the last one gives the department list.
normalize_clients(m, order) ==
    [c \in {Lower(x) : x \in DOMAIN m} |->
        LET at == CHOOSE i \in 1..Len(order) :
                      /\ Lower(order[i]) = c
                      /\ \A j \in (i + 1)..Len(order) : Lower(order[j]) # c
            name == order[at]
        IN  [i \in 1..Len(m[name]) |-> Lower(m[name][i])]]

quarter_key(year, q) ==
    LET ms == quarter_to_months(q)
    IN  <<year, ms[1], year, ms[3]>>

\* Lines 157-162
quarter_map_of(year, selected_quarters) ==
    [k \in {quarter_key(year, selected_quarters[i]) : i \in 1..Len(selected_quarters)} |->
        LET q == CHOOSE x \in SeqToSet(selected_quarters) : quarter_key(year, x) = k
        IN  [j \in 1..3 |-> MonthDate(year, quarter_to_months(q)[j])]]

Failed(code) ==
    [status |-> code, months |-> <<>>, quarter_map |-> <<>>, normalized |-> <<>>]

\* Lines 69-165: the periods and the client filter the request resolves to, or
\* the status it is rejected with.
ResolveSummary(st, payload) ==
    LET cp == payload.clients
        no_filters == /\ payload.selected_months = <<>>
                      /\ payload.selected_quarters = <<>>
                      /\ payload.start_month = NoKey
                      /\ payload.end_month = NoKey
        all_branch == ClientsFalsy(cp) \/ cp.kind = "all"
        dict_default == ~all_branch /\ cp.kind = "dict" /\ payload.selected_year = <<>>
                        /\ no_filters
        latest_all == IF latest_duration_month(st) = NoDate THEN CurrentMonth
                      ELSE latest_duration_month(st)
        latest_cur == latest_duration_month_of_year(st, YearOf(CurrentMonth))
        months0 == IF all_branch /\ no_filters THEN <<latest_all>>
                   ELSE IF dict_default /\ latest_cur # NoDate THEN <<latest_cur>>
                   ELSE <<>>
        selected_year == IF all_branch /\ no_filters THEN <<YearOf(latest_all)>>
                         ELSE IF dict_default THEN <<YearOf(CurrentMonth)>>
                         ELSE payload.selected_year
        normalized == IF all_branch THEN <<>> ELSE normalize_clients(cp.map, cp.order)
        start_date == parse_yyyy_mm(payload.start_month)
        end_date == parse_yyyy_mm(payload.end_month)
        year == selected_year[1]
        Ok(months, qmap) ==
            [status |-> 200, months |-> months, quarter_map |-> qmap,
             normalized |-> normalized]
    IN  IF ~all_branch /\ cp.kind # "dict" THEN Failed(400)
        ELSE IF dict_default /\ latest_cur = NoDate THEN Failed(404)
        ELSE IF (payload.selected_months # <<>> \/ payload.selected_quarters # <<>>)
                /\ selected_year = <<>> THEN Failed(400)
        ELSE IF payload.start_month # NoKey /\ payload.end_month # NoKey
             THEN IF start_date = NoDate \/ end_date = NoDate THEN Failed(400)
                  ELSE IF start_date > end_date THEN Failed(400)
                  ELSE Ok(month_range(start_date, end_date), <<>>)
        ELSE IF payload.selected_months # <<>>
             THEN IF YearRejected(year) THEN Failed(400)
                  ELSE IF \E i \in 1..Len(payload.selected_months) :
                             payload.selected_months[i] \notin 1..12
                       THEN Failed(500)
                  ELSE Ok([i \in 1..Len(payload.selected_months) |->
                              MonthDate(year, payload.selected_months[i])], <<>>)
        ELSE IF payload.selected_quarters # <<>>
             THEN IF YearRejected(year) THEN Failed(400)
                  ELSE IF \E i \in 1..Len(payload.selected_quarters) :
                             quarter_to_months(payload.selected_quarters[i]) = <<>>
                       THEN Failed(400)
                  ELSE Ok(months0, quarter_map_of(year, payload.selected_quarters))
        ELSE IF months0 = <<>> THEN Failed(400)
        ELSE Ok(months0, <<>>)

\* Lines 168-175
Skeleton(payload, plan) ==
    IF payload.selected_quarters # <<>>
    THEN [k \in DOMAIN plan.quarter_map |-> MessageBlock]
    ELSE [k \in {month_key_from_date(d) : d \in SeqToSet(plan.months)} |-> MessageBlock]

\* Lines 201-216
ClientFilter(row, normalized) ==
    DOMAIN normalized = {} \/
    \E c \in DOMAIN normalized :
        /\ row.client # NULL
        /\ Lower(row.client) = c
        /\ \/ normalized[c] = <<>>
           \/ row.department # NULL /\ Lower(row.department) \in SeqToSet(normalized[c])

\* Lines 219-225
DateFilter(row, payload, plan) ==
    IF payload.selected_quarters # <<>>
    THEN \E k \in DOMAIN plan.quarter_map : row.duration_month \in SeqToSet(plan.quarter_map[k])
    ELSE row.duration_month \in SeqToSet(plan.months)

\* Lines 178-227: the rows of the query, as a set
SummaryRows(st, rt, payload, plan) ==
    {row \in JoinedRows(st, rt) : ClientFilter(row, plan.normalized)
                                  /\ DateFilter(row, payload, plan)}

\* client_summary_service for the order the query returned its rows in.  A
\* KeyError leaves the handler as a 500 response.
client_summary(st, rt, payload, rows) ==
    LET plan == ResolveSummary(st, payload)
        by_quarter == payload.selected_quarters # <<>>
        filled == Populate(Skeleton(payload, plan), rows, Len(rows), plan.quarter_map,
                           by_quarter)
    IN  IF plan.status # 200 THEN [status |-> plan.status, body |-> <<>>, rows |-> <<>>]
        ELSE IF ~filled.ok THEN [status |-> 500, body |-> <<>>, rows |-> rows]
        ELSE [status |-> 200,
              body |-> IF payload.clients.kind = "dict"
                       THEN ZeroFill(filled.response, payload.clients.map)
                       ELSE filled.response,
              rows |-> rows]

(***************************************************************************)
(* client_comparison_service.  The month buckets keep their departments    *)
(* under "depts" and their totals under "vertical_total"; the request      *)
(* names no account manager.                                               *)
(***************************************************************************)
NewComparisonDept ==
    [total_allowance |-> 0, sub |-> empty_shift_totals, head_count_set |-> {},
     diff |-> 0, emp |-> <<>>]

\* Lines 128-186: one row of the query added to data
CompareRow(data, row) ==
    IF row.duration_month = NoDate THEN data
    ELSE
    LET month_key == month_key_from_date(row.duration_month)
        dept_key == IF row.department = NULL \/ row.department = "" THEN "UNKNOWN"
                    ELSE row.department
        shift_allowance == row.days * row.amount
        emp_key == <<row.emp_id, month_key_from_date(row.payroll_month)>>
        month_bucket == GetOr(data, month_key, <<>>)
        dept_bucket == GetOr(month_bucket, dept_key, NewComparisonDept)
        emp_bucket == GetOr(dept_bucket.emp, emp_key,
                            [emp_id |-> row.emp_id, sub |-> empty_shift_totals,
                             total_allowance |-> 0])
        emp1 == [emp_bucket EXCEPT
                   !.sub = IF row.shift_type \in ShiftKeys
                           THEN [@ EXCEPT ![row.shift_type] = @ + shift_allowance]
                           ELSE @,
                   !.total_allowance = @ + shift_allowance]
        dept1 == [dept_bucket EXCEPT
                    !.emp = Put(dept_bucket.emp, emp_key, emp1),
                    !.total_allowance = @ + shift_allowance,
                    !.sub = IF row.shift_type \in ShiftKeys
                            THEN [@ EXCEPT ![row.shift_type] = @ + shift_allowance]
                            ELSE @,
                    !.head_count_set = @ \cup {row.emp_id}]
    IN  Put(data, month_key, Put(month_bucket, dept_key, dept1))

RECURSIVE CompareRows(_, _)
CompareRows(rows, n) ==
    IF n = 0 THEN <<>> ELSE CompareRow(CompareRows(rows, n - 1), rows[n])

KeyDate(k) == MonthDate(k[1], k[2])

\* Lines 194-207: the difference to the same department of the month before
\* in sorted(data.keys()); it stays 0.0 without such a month or department.
dept_diff(data, month_key, dept_key) ==
    LET earlier == {k \in DOMAIN data : KeyDate(k) < KeyDate(month_key)}
        prev_month_key == CHOOSE k \in earlier : \A e \in earlier : KeyDate(e) <= KeyDate(k)
    IN  IF earlier = {} THEN 0
        ELSE IF dept_key \notin DOMAIN data[prev_month_key] THEN 0
        ELSE data[month_key][dept_key].total_allowance
             - data[prev_month_key][dept_key].total_allowance

RECURSIVE SumSet(_, _)
SumSet(f, S) ==
    IF S = {} THEN 0
    ELSE LET x == CHOOSE y \in S : TRUE IN f[x] + SumSet(f, S \ {x})

month_total_allowance(data, month_key) ==
    SumSet([d \in DOMAIN data[month_key] |-> data[month_key][d].total_allowance],
           DOMAIN data[month_key])

\* Lines 232-235
prev_month_seq(month_key) ==
    <<IF month_key[2] > 1 THEN month_key[1] ELSE month_key[1] - 1,
      IF month_key[2] > 1 THEN month_key[2] - 1 ELSE 12>>

\* Lines 227-241
month_total_diff(data, month_key) ==
    IF prev_month_seq(month_key) \notin DOMAIN data THEN 0
    ELSE month_total_allowance(data, month_key)
         - month_total_allowance(data, prev_month_seq(month_key))

\* Lines 209-225 and 238-241
vertical_total(data, month_key) ==
    LET month_bucket == data[month_key]
    IN  [total_allowance |-> month_total_allowance(data, month_key),
         sub |-> [k \in ShiftKeys |->
                     SumSet([d \in DOMAIN month_bucket |-> month_bucket[d].sub[k]],
                            DOMAIN month_bucket)],
         head_count |-> Cardinality(UNION {{month_bucket[d].emp[e].emp_id :
                                              e \in DOMAIN month_bucket[d].emp} :
                                           d \in DOMAIN month_bucket}),
         month_total_diff |-> month_total_diff(data, month_key)]

\* Lines 188-207: a month's departments as returned
FinishedDepts(data, month_key) ==
    [d \in DOMAIN data[month_key] |->
        [total_allowance |-> data[month_key][d].total_allowance,
         sub |-> data[month_key][d].sub,
         head_count |-> Cardinality(data[month_key][d].head_count_set),
         diff |-> dept_diff(data, month_key, d),
         emp |-> data[month_key][d].emp]]

\* Lines 243-259
horizontal_total(data) ==
    LET depts == UNION {DOMAIN data[k] : k \in DOMAIN data}
    IN  [d \in depts |->
            LET months == {k \in DOMAIN data : d \in DOMAIN data[k]}
            IN  [total_allowance |->
                     SumSet([k \in months |-> data[k][d].total_allowance], months),
                 head_count |->
                     Cardinality(UNION {{data[k][d].emp[e].emp_id :
                                           e \in DOMAIN data[k][d].emp} : k \in months})]]

\* Lines 273-283
NoDataMonth ==
    [message |-> "No data found",
     vertical_total |-> [total_allowance |-> 0, sub |-> empty_shift_totals,
                         head_count |-> 0]]

\* Lines 36-80: the months the request covers, first and last, or the status
\* it is rejected with.
ResolveComparison(st, client_name, start_month, end_month) ==
    LET latest_date == MaxDate({r.duration_month :
                                  r \in {x \in st : x.client = client_name}} \ {NoDate})
        start_date == IF start_month = NoKey THEN latest_date ELSE parse_yyyy_mm(start_month)
        end_date == IF start_month = NoKey THEN latest_date
                    ELSE IF end_month = NoKey THEN start_date
                    ELSE parse_yyyy_mm(end_month)
        Reject(code) == [status |-> code, start_date |-> NoDate, end_date |-> NoDate]
    IN  IF end_month # NoKey /\ start_month = NoKey THEN Reject(400)
        ELSE IF start_month = NoKey /\ latest_date = NoDate THEN Reject(404)
        ELSE IF start_date = NoDate THEN Reject(400)
        ELSE IF end_date = NoDate THEN Reject(400)
        ELSE IF end_date < start_date THEN Reject(400)
        ELSE IF start_date > CurrentMonth THEN Reject(400)
        ELSE IF end_date > CurrentMonth THEN Reject(400)
        ELSE [status |-> 200, start_date |-> start_date, end_date |-> end_date]

\* Lines 82-113: the rows of the query, as a set
ComparisonRows(st, rt, client_name, range) ==
    {row \in JoinedRows(st, rt) : /\ row.client = client_name
                                  /\ row.duration_month >= range.start_date
                                  /\ row.duration_month <= range.end_date}

\* client_comparison_service for the order the query returned its rows in
client_comparison(st, client_name, start_month, end_month, rows) ==
    LET range == ResolveComparison(st, client_name, start_month, end_month)
        data == CompareRows(rows, Len(rows))
        all_months == {month_key_from_date(d) : d \in range.start_date..range.end_date}
    IN  IF range.status # 200 THEN [status |-> range.status, body |-> <<>>, rows |-> <<>>]
        ELSE [status |-> 200,
              body |-> [months |-> [k \in all_months |->
                                       IF k \in DOMAIN data
                                       THEN [depts |-> FinishedDepts(data, k),
                                             vertical_total |-> vertical_total(data, k)]
                                       ELSE NoDataMonth],
                        horizontal_total |-> horizontal_total(data)],
              rows |-> rows]

(***************************************************************************)
(* The dashboard services get_graph_service and get_vertical_bar_service.  *)
(* A YYYY-MM text of a request is zero-padded, so that comparing two texts *)
(* compares the months.                                                    *)
(***************************************************************************)
\* dashboard_service._map_client_names: the full name and the enum name of a
\* client; a name that is not in the Company enum stands for both.
company_value(c) == IF c = "ATD" THEN "American Tire Distributors Inc" ELSE c
company_name(c) == IF c = "American Tire Distributors Inc" THEN "ATD" ELSE c
map_client_names(c) == <<company_value(c), company_name(c)>>

\* str.isalpha() of the name without its spaces, on the names of the model.
IsAlpha(c) == c \notin {"", "A1"}

\* ShiftAllowances of a client (every client for NULL) whose duration month is
\* the month d.
MonthRecords(st, client_name, d) ==
    {r \in st : /\ client_name # NULL => r.client = client_name
                /\ r.duration_month # NoDate
                /\ YearOf(r.duration_month) = YearOf(d)
                /\ MonthOf(r.duration_month) = MonthOf(d)}

\* Lines 170-179: for each year of the months, the rates of that payroll
\* year by upper-cased shift type.
rate_maps(rt, years) ==
    LET of_year(y) == load_shift_rates({r \in rt : r.payroll_year = y})
    IN  {f \in [years -> UNION {of_year(y) : y \in years}] :
            \A y \in years : f[y] \in of_year(y)}

\* Lines 198-206: the allowance of the records under one rate dict.
records_amount(records, sr) ==
    SumSet([r \in records |->
               SumSet([m \in r.shift_mappings |-> m.days * RateGet(sr, Upper(m.shift_type))],
                      r.shift_mappings)],
           records)

\* Lines 146-168: the months of the request as dates, <<>> with the status
\* when the request is rejected.
graph_months(start_month, end_month) ==
    LET start == parse_yyyy_mm(start_month)
        end == parse_yyyy_mm(end_month)
        year == YearOf(CurrentMonth)
    IN  IF end_month # NoKey /\ start_month = NoKey THEN [status |-> 400, months |-> <<>>]
        ELSE IF start_month = NoKey
             THEN [status |-> 200, months |-> [i \in 1..12 |-> MonthDate(year, i)]]
        ELSE IF start = NoDate THEN [status |-> 400, months |-> <<>>]
        ELSE IF end_month # NoKey /\ end = NoDate THEN [status |-> 400, months |-> <<>>]
        ELSE IF end_month # NoKey /\ end < start THEN [status |-> 400, months |-> <<>>]
        ELSE IF end_month = NoKey THEN [status |-> 200, months |-> <<start>>]
        ELSE [status |-> 200, months |-> month_range(start, end)]

\* get_graph_service under the rate dicts rate_map.  The graph is keyed by the
\* month's name, so a later month of the request replaces an earlier month of
\* the same name.
graph(st, client_name, start_month, end_month, rate_map) ==
    LET plan == graph_months(start_month, end_month)
        months == SeqToSet(plan.months)
        amount(d) == IF MonthRecords(st, client_name, d) = {} THEN 0
                     ELSE records_amount(MonthRecords(st, client_name, d), rate_map[YearOf(d)])
    IN  IF client_name = "" THEN [status |-> 400, body |-> <<>>, rows |-> <<>>]
        ELSE IF ~IsAlpha(client_name) THEN [status |-> 400, body |-> <<>>, rows |-> <<>>]
        ELSE IF \A r \in st : r.client # client_name
             THEN [status |-> 404, body |-> <<>>, rows |-> <<>>]
        ELSE IF plan.status # 200 THEN [status |-> plan.status, body |-> <<>>, rows |-> <<>>]
        ELSE [status |-> 200,
              body |-> [client_full_name |-> map_client_names(client_name)[1],
                        client_enum |-> map_client_names(client_name)[2],
                        graph |-> [mn \in {MonthOf(d) : d \in months} |->
                                      amount(MaxDate({d \in months : MonthOf(d) = mn}))]],
              rows |-> <<>>]

\* Lines 385-396: the top of a request is absent, the text all, a number or
\* another text; TRUE when it is rejected.
TopRejected(top) == top.t = "text" \/ (top.t = "num" /\ top.n <= 0)

\* Lines 414-432: the latest of the twelve months up to the current one that
\* has a record, NoDate when none has.
latest_of_last_twelve(st) ==
    MaxDate({d \in (CurrentMonth - 11)..CurrentMonth : MonthRecords(st, NULL, d) # {}})

\* Lines 414-449
vertical_months(st, start_month, end_month) ==
    LET start == parse_yyyy_mm(start_month)
        end == parse_yyyy_mm(end_month)
    IN  IF start_month = NoKey /\ end_month = NoKey
        THEN IF latest_of_last_twelve(st) = NoDate THEN [status |-> 404, months |-> <<>>]
             ELSE [status |-> 200, months |-> <<latest_of_last_twelve(st)>>]
        ELSE IF end_month = NoKey
             THEN IF start = NoDate THEN [status |-> 400, months |-> <<>>]
                  ELSE [status |-> 200, months |-> <<start>>]
        ELSE IF start_month = NoKey THEN [status |-> 400, months |-> <<>>]
        ELSE IF start = NoDate \/ end = NoDate THEN [status |-> 400, months |-> <<>>]
        ELSE IF end < start THEN [status |-> 400, months |-> <<>>]
        ELSE [status |-> 200, months |-> month_range(start, end)]

\* Lines 454-483: days and allowances by client over the months, under the
\* rate dict sr of lines 451-452.
vertical_summary(st, months, sr) ==
    LET records == UNION {MonthRecords(st, NULL, d) : d \in months}
        key(r) == map_client_names(IF r.client = NULL \/ r.client = "" THEN "Unknown"
                                   ELSE r.client)[2]
        of(k) == {r \in records : key(r) = k}
    IN  [k \in {key(r) : r \in records} |->
            [client_full_name |-> company_value(k),
             client_enum |-> k,
             total_days |-> SumSet([r \in of(k) |-> TotalDays(r.shift_mappings)], of(k)),
             total_allowances |-> records_amount(of(k), sr)]]

\* Lines 488-500: the results the sort by allowance may give, cut to the top.
vertical_results(summary, top) ==
    LET sorted == {o \in Orders(DOMAIN summary) :
                     \A i \in 1..(Len(o) - 1) :
                         summary[o[i]].total_allowances >= summary[o[i + 1]].total_allowances}
        n(o) == IF top.t = "num" /\ top.n < Len(o) THEN top.n ELSE Len(o)
    IN  {[i \in 1..n(o) |-> summary[o[i]]] : o \in sorted}

\* get_vertical_bar_service: the status, and the summary before the sort.
vertical_bar(st, start_month, end_month, top, sr) ==
    LET plan == vertical_months(st, start_month, end_month)
        summary == vertical_summary(st, SeqToSet(plan.months), sr)
    IN  IF TopRejected(top) THEN [status |-> 400, summary |-> <<>>]
        ELSE IF plan.status # 200 THEN [status |-> plan.status, summary |-> <<>>]
        ELSE IF DOMAIN summary = {} THEN [status |-> 404, summary |-> <<>>]
        ELSE [status |-> 200, summary |-> summary]

\* Lines 33-44 and 56-57 of get_horizontal_bar_service: the records of the
\* request, or the status it is rejected with.  The first month of a request
\* without start_month is the latest stored duration_month.
horizontal_records(st, start_month, end_month) ==
    LET start_date == IF start_month = NoKey THEN latest_duration_month(st)
                      ELSE parse_year_month(start_month)
        end_date == parse_year_month(end_month)
        records == {r \in st : /\ r.duration_month # NoDate
                               /\ r.duration_month >= start_date
                               /\ r.duration_month <= (IF end_month = NoKey THEN start_date
                                                       ELSE end_date)}
        Reject(code) == [status |-> code, records |-> {}]
    IN  IF start_month = NoKey /\ start_date = NoDate THEN Reject(404)
        ELSE IF start_date = NoDate THEN Reject(400)
        ELSE IF end_month # NoKey /\ end_date = NoDate THEN Reject(400)
        ELSE IF end_month # NoKey /\ start_date > end_date THEN Reject(400)
        ELSE IF records = {} THEN Reject(404)
        ELSE [status |-> 200, records |-> records]

\* Lines 59-87: employees and days by client.
horizontal_output(records) ==
    LET key(r) == IF r.client = NULL \/ r.client = "" THEN "Unknown" ELSE r.client
        of(k) == {r \in records : key(r) = k}
        days(k, stype) ==
            SumSet([r \in of(k) |->
                      TotalDays({m \in r.shift_mappings : Upper(m.shift_type) = stype})],
                   of(k))
    IN  [k \in {key(r) : r \in records} |->
            [client_full_name |-> company_value(k),
             client_enum |-> company_name(k),
             total_unique_employees |-> Cardinality({r.emp_id : r \in of(k)}),
             sub |-> [stype \in ShiftKeys |-> days(k, stype)]]]

\* Lines 89-96: the results the sort by head count may give, cut to the top;
\* top is absent or a number.
horizontal_results(output, top) ==
    LET sorted == {o \in Orders(DOMAIN output) :
                     \A i \in 1..(Len(o) - 1) :
                         output[o[i]].total_unique_employees
                             >= output[o[i + 1]].total_unique_employees}
        n(o) == IF top.t = "num" /\ top.n < Len(o) THEN top.n ELSE Len(o)
    IN  {[i \in 1..n(o) |-> output[o[i]]] : o \in sorted}

\* get_horizontal_bar_service: the status, and the output before the sort.
horizontal_bar(st, start_month, end_month, top) ==
    LET found == horizontal_records(st, start_month, end_month)
    IN  IF found.status # 200 THEN [status |-> found.status, output |-> <<>>]
        ELSE IF top.t = "num" /\ top.n <= 0 THEN [status |-> 400, output |-> <<>>]
        ELSE [status |-> 200, output |-> horizontal_output(found.records)]

(***************************************************************************)
(* export_filtered_excel of search_service.py, the employee search, for a  *)
(* request by client and months.                                           *)
(***************************************************************************)
\* validate_not_future_month: TRUE when it raises.
not_future_month_rejected(month_str) ==
    ~YearMonthOk(month_str) \/ parse_year_month(month_str) > CurrentMonth

\* No start_month is after an end_month.
NeverAfter(start_month, end_month) == FALSE

\* start_month > end_month on two YYYY-MM texts.
TextAfter(start_month, end_month) ==
    \/ start_month[1] > end_month[1]
    \/ start_month[1] = end_month[1] /\ start_month[2] > end_month[2]

\* Lines 110-142: the months the search covers, or the status it is rejected
\* with.
search_months(st, start_month, end_month) ==
    LET latest == latest_of_last_twelve(st)
        start == IF start_month = NoKey /\ end_month = NoKey /\ latest # NoDate
                 THEN month_key_from_date(latest) ELSE start_month
        Reject(code) == [status |-> code, start_month |-> NoKey, end_month |-> NoKey]
    IN  IF start = NoKey /\ end_month = NoKey THEN Reject(404)
        ELSE IF start = NoKey THEN Reject(400)
        ELSE IF not_future_month_rejected(start) THEN Reject(400)
        ELSE IF end_month # NoKey /\ not_future_month_rejected(end_month) THEN Reject(400)
        ELSE IF end_month # NoKey /\ TextAfter(start, end_month) THEN Reject(400)
        ELSE [status |-> 200, start_month |-> start,
              end_month |-> IF end_month = NoKey THEN start ELSE end_month]

\* Lines 103-107 and 145-281 for the first page with room for every row; sr
\* is the rate dict of lines 103-107 and client the client filter or NULL.
export_filtered(st, client, start_month, end_month, sr) ==
    LET plan == search_months(st, start_month, end_month)
        rows == {r \in st : /\ r.duration_month # NoDate
                            /\ r.duration_month >= parse_year_month(plan.start_month)
                            /\ r.duration_month <= parse_year_month(plan.end_month)
                            /\ client # NULL =>
                                   r.client # NULL /\ Lower(r.client) = Lower(client)}
        worked(r) == {m \in r.shift_mappings : m.days > 0}
        amount(r) == SumSet([m \in worked(r) |-> m.days * RateGet(sr, Upper(m.shift_type))],
                            worked(r))
    IN  IF plan.status # 200 THEN [status |-> plan.status, body |-> <<>>]
        ELSE IF rows = {} THEN [status |-> 404, body |-> <<>>]
        ELSE [status |-> 200,
              body |-> [total_records |-> Cardinality(rows),
                        head_count |-> Cardinality({r.emp_id : r \in rows}),
                        total_allowance |-> SumSet([r \in rows |-> amount(r)], rows),
                        employees |-> {[emp_id |-> r.emp_id,
                                        client |-> company_name(r.client),
                                        duration_month |-> month_key_from_date(r.duration_month),
                                        total_allowance |-> amount(r)] : r \in rows}]]

(***************************************************************************)
(* fetch_shift_record and fetch_shift_data of display_service.py.  Both    *)
(* assign total_allowance on the mappings they read and commit.            *)
(***************************************************************************)
\* row.total_allowance = days * rate on every mapping of a set.
RecalculatedMappings(ms, sr) ==
    {[m EXCEPT !.total_allowance = m.days * RateGet(sr, Upper(m.shift_type))] : m \in ms}

\* Lines 338-394.  At most one row has the employee and the two months.
shift_record(st, emp_id, duration_month, payroll_month, sr) ==
    LET found == {r \in st : /\ r.emp_id = emp_id
                             /\ r.duration_month = parse_year_month(duration_month)
                             /\ r.payroll_month = parse_year_month(payroll_month)}
        rec == CHOOSE r \in found : TRUE
        mappings == RecalculatedMappings(rec.shift_mappings, sr)
    IN  IF ~YearMonthOk(duration_month) \/ ~YearMonthOk(payroll_month)
        THEN [status |-> 400, body |-> <<>>, store |-> st]
        ELSE IF found = {} THEN [status |-> 404, body |-> <<>>, store |-> st]
        ELSE [status |-> 200,
              body |-> [emp_id |-> rec.emp_id,
                        client |-> map_client_names(rec.client),
                        duration_month |-> month_key_from_date(rec.duration_month),
                        payroll_month |-> month_key_from_date(rec.payroll_month),
                        total_allowance |-> SumSet([m \in mappings |-> m.total_allowance],
                                                   mappings)],
              store |-> (st \ {rec}) \cup {[rec EXCEPT !.shift_mappings = mappings]}]

\* Lines 36-109 for the first page with room for every record of the month.
\* sr is the rate dict the function loads, sr_all the one
\* _recalculate_all_mappings loads.
shift_data(st, sr, sr_all) ==
    LET dated == {r.duration_month : r \in st} \ {NoDate}
        has_current == CurrentMonth \in dated
        selected_month == IF has_current THEN CurrentMonth ELSE MaxDate(dated)
        recalculated == {[r EXCEPT !.shift_mappings = RecalculatedMappings(@, sr_all)] :
                           r \in st}
        RecordOf(r) == [r EXCEPT !.shift_mappings = RecalculatedMappings(@, sr)]
        records == {RecordOf(r) : r \in {x \in recalculated :
                                            x.duration_month = selected_month}}
    IN  IF dated = {} THEN [status |-> 404, body |-> <<>>, store |-> st]
        ELSE [status |-> 200,
              body |-> [selected_month |-> month_key_from_date(selected_month),
                        total_records |-> Cardinality(records),
                        data |-> {[emp_id |-> r.emp_id,
                                   total_allowance |->
                                     SumSet([m \in r.shift_mappings |-> m.total_allowance],
                                            r.shift_mappings)] : r \in records},
                        message |-> ~has_current],
              store |-> {IF r.duration_month = selected_month THEN RecordOf(r) ELSE r :
                           r \in recalculated}]

(***************************************************************************)
(* The stores and requests of the reporting services.                      *)
(***************************************************************************)
MaxRows == 2    \* rows of shift_allowances when a report is asked for
MaxCalls == 1   \* calls of a reporting service in one behaviour

Nov23 == MonthDate(2023, 11)
Dec23 == MonthDate(2023, 12)
Jan24 == MonthDate(2024, 1)

\* A mapping as the upload stores it while the rate table has no rate for it.
Mapping(s, d) == [shift_type |-> s, days |-> d, total_allowance |-> 0]

StoredRow(e, c, d, dm, pm, ms) ==
    [emp_id |-> e, client |-> c, department |-> d, duration_month |-> dm,
     payroll_month |-> pm, shift_mappings |-> ms]

Places == {<<"Acme", "IT">>, <<"Acme", "HR">>, <<"Beta", "IT">>}
DurationMonths == {Nov23, Dec23, Jan24}

\* E1 has rows at every place and month, paid one month later for shifts A
\* and B or two months later for shift A; E2 has rows at the IT departments,
\* for shift A, and at Acme's IT for a shift labelled D.
ReportRows ==
    {StoredRow("E1", pl[1], pl[2], dm, dm + 1, {Mapping("A", 2), Mapping("B", 1)}) :
        pl \in Places, dm \in DurationMonths} \cup
    {StoredRow("E1", pl[1], pl[2], dm, dm + 2, {Mapping("A", 2)}) :
        pl \in Places, dm \in DurationMonths} \cup
    {StoredRow("E2", pl[1], pl[2], dm, dm + 1, {Mapping("A", 4)}) :
        pl \in {<<"Acme", "IT">>, <<"Beta", "IT">>}, dm \in DurationMonths} \cup
    {StoredRow("E2", "Acme", "IT", dm, dm + 2, {Mapping("D", 1)}) : dm \in {Dec23, Jan24}}

\* The stores of at most n rows that respect uix_payroll_employee.
RECURSIVE StoresUpTo(_)
StoresUpTo(n) ==
    IF n = 0 THEN {{}}
    ELSE LET smaller == StoresUpTo(n - 1)
         IN  smaller \cup {st \cup {r} : st \in smaller,
                                         r \in ReportRows}

ReportStores ==
    {st \in StoresUpTo(MaxRows) : \A r1, r2 \in st : SameTriple(r1, r2) => r1 = r2}

\* Shift A has a rate in both payroll years, shift B and the label D in 2024.
ReportRates ==
    {Rate("A", 2023, 4), Rate("A", 2024, 5), Rate("B", 2024, 7), Rate("D", 2024, 3)}

ClientsAll == [kind |-> "all", map |-> <<>>]
ClientsAbsent == [kind |-> "none", map |-> <<>>]
ClientsOther == [kind |-> "other", map |-> <<>>]
\* A mapping of client to department list, with its keys in the order given
\* or in some order.
ClientsInOrder(m, order) == [kind |-> "dict", map |-> m, order |-> order]
ClientsDict(m) == ClientsInOrder(m, CHOOSE o \in Orders(DOMAIN m) : TRUE)

\* Two keys that differ by case only, each with a department of its own.
ClientsTwice ==
    ClientsInOrder(("Acme" :> <<"IT">>) @@ ("acme" :> <<"HR">>), <<"Acme", "acme">>)

\* A mapping written in lower case.
ClientsLower == ClientsDict([c \in {"acme"} |-> <<"it">>])

ClientChoices ==
    {ClientsAll,
     ClientsDict([c \in {"Acme"} |-> <<>>]),
     ClientsDict([c \in {"Acme", "Beta"} |-> IF c = "Acme" THEN <<"IT", "HR">> ELSE <<>>])}

Period(year, months, quarters, start, end) ==
    [selected_year |-> year, selected_months |-> months, selected_quarters |-> quarters,
     start_month |-> start, end_month |-> end]

\* Requests that name their periods in one way, in two ways, or not at all.
PeriodChoices ==
    {Period(<<>>, <<>>, <<>>, NoKey, NoKey),
     Period(<<2023>>, <<12>>, <<>>, NoKey, NoKey),
     Period(<<2023>>, <<11, 12>>, <<>>, NoKey, NoKey),
     Period(<<2023>>, <<>>, <<"Q4">>, NoKey, NoKey),
     Period(<<>>, <<>>, <<>>, <<2023, 11>>, <<2024, 1>>),
     Period(<<2023>>, <<12>>, <<"Q4">>, NoKey, NoKey),
     Period(<<2023>>, <<>>, <<"Q4">>, <<2023, 11>>, <<2023, 12>>)}

\* Requests the validations turn on.
RejectedPeriods ==
    {Period(<<>>, <<12>>, <<>>, NoKey, NoKey),
     Period(<<2025>>, <<1>>, <<>>, NoKey, NoKey),
     Period(<<2023>>, <<13>>, <<>>, NoKey, NoKey),
     Period(<<2023>>, <<>>, <<"Q5">>, NoKey, NoKey),
     Period(<<>>, <<>>, <<>>, <<2023, 12>>, <<2023, 11>>),
     Period(<<>>, <<>>, <<>>, BadText, <<2023, 12>>),
     Period(<<>>, <<>>, <<>>, <<2023, 12>>, NoKey),
     Period(<<2024>>, <<>>, <<>>, NoKey, NoKey)}

\* Requests with a selected_year that validate_year refuses, alone and next
\* to each of the other period fields.
BadYearPeriods ==
    {Period(<<y>>, f[1], f[2], f[3], f[4]) :
        y \in {0, 2025},
        f \in {<<<<>>, <<>>, NoKey, NoKey>>,
               <<<<>>, <<>>, <<2023, 11>>, <<2023, 12>>>>,
               <<<<12>>, <<>>, NoKey, NoKey>>,
               <<<<>>, <<"Q4">>, NoKey, NoKey>>}}

\* Requests with a quarter label that is none of Q1 to Q4, alone or after a
\* valid label, and next to each of the other period fields.
BadQuarterPeriods ==
    {Period(<<2023>>, f[1], qs, f[2], f[3]) :
        qs \in {<<"Q5">>, <<"Q4", "Q5">>},
        f \in {<<<<>>, NoKey, NoKey>>,
               <<<<12>>, NoKey, NoKey>>,
               <<<<>>, <<2023, 11>>, <<2023, 12>>>>}}

\* Requests by quarters: two quarters, one quarter named twice, and the
\* quarter of the current month.
QuarterPeriods ==
    {Period(<<2023>>, <<>>, <<"Q3", "Q4">>, NoKey, NoKey),
     Period(<<2023>>, <<>>, <<"Q4", " q4">>, NoKey, NoKey),
     Period(<<2024>>, <<>>, <<"Q1">>, NoKey, NoKey)}

\* Requests for months after the current one.
FuturePeriods ==
    {Period(<<>>, <<>>, <<>>, <<2023, 12>>, <<2024, 2>>),
     Period(<<>>, <<>>, <<>>, <<2024, 2>>, <<2024, 3>>),
     Period(<<2024>>, <<2>>, <<>>, NoKey, NoKey),
     Period(<<2024>>, <<1, 2>>, <<>>, NoKey, NoKey)}

SummaryPayload(cp, pd) ==
    [clients |-> cp, selected_year |-> pd.selected_year,
     selected_months |-> pd.selected_months,
     selected_quarters |-> pd.selected_quarters,
     start_month |-> pd.start_month, end_month |-> pd.end_month]

SummaryPayloads ==
    {SummaryPayload(cp, pd) : cp \in ClientChoices, pd \in PeriodChoices} \cup
    {SummaryPayload(ClientsAll, pd) : pd \in RejectedPeriods \cup BadYearPeriods \cup FuturePeriods
                                            \cup BadQuarterPeriods} \cup
    {SummaryPayload(cp, pd) :
        cp \in {ClientsAll, ClientsDict([c \in {"Acme"} |-> <<>>])}, pd \in QuarterPeriods} \cup
    {SummaryPayload(ClientsLower, Period(<<2023>>, <<12>>, <<>>, NoKey, NoKey))} \cup
    {SummaryPayload(ClientsTwice, pd) :
        pd \in {Period(<<2023>>, <<12>>, <<>>, NoKey, NoKey),
                Period(<<>>, <<>>, <<>>, <<2023, 11>>, <<2024, 1>>)}} \cup
    {SummaryPayload(ClientsDict([c \in {"Acme"} |-> <<>>]),
                    Period(<<2024>>, <<>>, <<>>, NoKey, NoKey)),
     SummaryPayload(ClientsAbsent, Period(<<>>, <<>>, <<>>, NoKey, NoKey)),
     SummaryPayload(ClientsOther, Period(<<2023>>, <<12>>, <<>>, NoKey, NoKey))}

ComparisonPayload(c, start, end) ==
    [client_name |-> c, start_month |-> start, end_month |-> end]

ComparisonPayloads ==
    {ComparisonPayload(c, mm[1], mm[2]) :
        c \in Clients,
        mm \in {<<NoKey, NoKey>>, <<<<2023, 11>>, <<2024, 1>>>>,
                <<<<2023, 12>>, <<2024, 1>>>>, <<<<2023, 12>>, NoKey>>}} \cup
    {ComparisonPayload("Acme", mm[1], mm[2]) :
        mm \in {<<NoKey, <<2023, 12>>>>, <<<<2023, 12>>, <<2023, 11>>>>,
                <<BadText, NoKey>>, <<<<2023, 12>>, <<2024, 2>>>>,
                <<<<2024, 2>>, NoKey>>}}

GraphPayload(c, start, end) ==
    [client_name |-> c, start_month |-> start, end_month |-> end]

\* Requests for a client of the store over a range, one month or the current
\* year, and requests the validations turn on.
GraphPayloads ==
    {GraphPayload(c, mm[1], mm[2]) :
        c \in Clients,
        mm \in {<<NoKey, NoKey>>, <<<<2023, 11>>, <<2024, 1>>>>, <<<<2023, 12>>, NoKey>>}} \cup
    {GraphPayload("Acme", mm[1], mm[2]) :
        mm \in {<<NoKey, <<2023, 12>>>>, <<<<2023, 12>>, <<2023, 11>>>>,
                <<BadText, NoKey>>, <<<<2023, 12>>, BadText>>}} \cup
    {GraphPayload(c, <<2023, 12>>, NoKey) : c \in {"", "A1"}}

NoTop == [t |-> "none", n |-> 0]
TopAll == [t |-> "all", n |-> 0]
TopN(n) == [t |-> "num", n |-> n]
TopText == [t |-> "text", n |-> 0]

BarPayload(start, end, top) == [start_month |-> start, end_month |-> end, top |-> top]

VerticalBarPayloads ==
    {BarPayload(mm[1], mm[2], top) :
        mm \in {<<NoKey, NoKey>>, <<<<2023, 11>>, <<2024, 1>>>>, <<<<2023, 12>>, NoKey>>},
        top \in {NoTop, TopAll, TopN(1)}} \cup
    {BarPayload(mm[1], mm[2], NoTop) :
        mm \in {<<NoKey, <<2023, 12>>>>, <<<<2023, 12>>, <<2023, 11>>>>,
                <<BadText, NoKey>>, <<<<2023, 12>>, BadText>>}} \cup
    {BarPayload(<<2023, 12>>, NoKey, top) : top \in {TopN(0), TopText}}

HorizontalBarPayloads ==
    {BarPayload(mm[1], mm[2], top) :
        mm \in {<<NoKey, NoKey>>, <<<<2023, 11>>, <<2024, 1>>>>, <<<<2023, 12>>, NoKey>>,
                <<NoKey, <<2023, 11>>>>, <<<<2023, 12>>, <<2023, 11>>>>,
                <<<<2024, 1>>, <<2023, 12>>>>},
        top \in {NoTop, TopN(1)}} \cup
    {BarPayload(mm[1], mm[2], NoTop) :
        mm \in {<<BadText, NoKey>>, <<<<2023, 12>>, BadText>>}} \cup
    {BarPayload(<<2023, 12>>, NoKey, TopN(0))}

SearchPayloads ==
    {[client |-> c, start_month |-> mm[1], end_month |-> mm[2]] :
        c \in {NULL, "Acme"},
        mm \in {<<NoKey, NoKey>>, <<<<2023, 11>>, <<2024, 1>>>>, <<<<2023, 12>>, NoKey>>,
                <<NoKey, <<2023, 12>>>>, <<<<2023, 12>>, <<2023, 11>>>>,
                <<<<2024, 1>>, <<2023, 12>>>>, <<BadText, NoKey>>,
                <<<<2023, 12>>, <<2024, 2>>>>, <<<<2024, 2>>, NoKey>>,
                <<<<2024, 3>>, <<2024, 2>>>>}}

(***************************************************************************)
(* The reporting services as actions: a service is called on a store and   *)
(* answers.                                                                *)
(***************************************************************************)
InitReport ==
    /\ store \in ReportStores
    /\ rates = ReportRates
    /\ last = [op |-> "none", status |-> 0, row |-> <<>>, existed |-> FALSE,
               skipped |-> FALSE]
    /\ ops = 0
    /\ call = NoCall
    /\ result = NoResult
    /\ previous = NoResult
    /\ cache = NoKey
    /\ uploaded_files = <<>>

client_summary_service ==
    /\ ops < MaxCalls
    /\ \E payload \in SummaryPayloads :
           LET plan == ResolveSummary(store, payload)
           IN  \E rows \in (IF plan.status = 200
                            THEN Orders(SummaryRows(store, rates, payload, plan))
                            ELSE {<<>>}) :
                   /\ ops' = ops + 1
                   /\ call' = [service |-> "summary", payload |-> payload]
                   /\ result' = client_summary(store, rates, payload, rows)
                   /\ UNCHANGED <<store, rates, last, previous, cache, uploaded_files>>

client_comparison_service ==
    /\ ops < MaxCalls
    /\ \E payload \in ComparisonPayloads :
           LET range == ResolveComparison(store, payload.client_name, payload.start_month,
                                          payload.end_month)
           IN  \E rows \in (IF range.status = 200
                            THEN Orders(ComparisonRows(store, rates, payload.client_name, range))
                            ELSE {<<>>}) :
                   /\ ops' = ops + 1
                   /\ call' = [service |-> "comparison", payload |-> payload]
                   /\ result' = client_comparison(store, payload.client_name,
                                                  payload.start_month, payload.end_month, rows)
                   /\ UNCHANGED <<store, rates, last, previous, cache, uploaded_files>>

get_graph_service ==
    /\ ops < MaxCalls
    /\ \E payload \in GraphPayloads :
           LET plan == graph_months(payload.start_month, payload.end_month)
               years == {YearOf(d) : d \in SeqToSet(plan.months)}
           IN  \E rate_map \in rate_maps(rates, years) :
                   /\ ops' = ops + 1
                   /\ call' = [service |-> "graph", payload |-> payload]
                   /\ result' = graph(store, payload.client_name, payload.start_month,
                                      payload.end_month, rate_map)
                   /\ UNCHANGED <<store, rates, last, previous, cache, uploaded_files>>

get_vertical_bar_service ==
    /\ ops < MaxCalls
    /\ \E payload \in VerticalBarPayloads : \E sr \in load_shift_rates(rates) :
           LET out == vertical_bar(store, payload.start_month, payload.end_month,
                                   payload.top, sr)
           IN  \E body \in (IF out.status = 200 THEN vertical_results(out.summary, payload.top)
                            ELSE {<<>>}) :
                   /\ ops' = ops + 1
                   /\ call' = [service |-> "vertical_bar", payload |-> payload]
                   /\ result' = [status |-> out.status, body |-> body, rows |-> <<>>]
                   /\ UNCHANGED <<store, rates, last, previous, cache, uploaded_files>>

\* The requests for one record: stored and missing keys, and a month that
\* is no YYYY-MM text.
RecordRequests ==
    {[emp_id |-> e, duration_month |-> dm, payroll_month |-> pm] :
        e \in {"E1", "E2"}, dm \in {<<2023, 12>>, BadText},
        pm \in {<<2024, 1>>, <<2024, 2>>}}

fetch_shift_record ==
    /\ ops < MaxCalls
    /\ \E req \in RecordRequests : \E sr \in load_shift_rates(rates) :
           LET out == shift_record(store, req.emp_id, req.duration_month,
                                   req.payroll_month, sr)
           IN  /\ ops' = ops + 1
               /\ call' = [service |-> "fetch_shift_record", payload |-> req]
               /\ result' = [status |-> out.status, body |-> out.body, rows |-> <<>>]
               /\ store' = out.store
               /\ UNCHANGED <<rates, last, previous, cache, uploaded_files>>

fetch_shift_data ==
    /\ ops < MaxCalls
    /\ \E sr \in load_shift_rates(rates) : \E sr_all \in load_shift_rates(rates) :
           LET out == shift_data(store, sr, sr_all)
           IN  /\ ops' = ops + 1
               /\ call' = [service |-> "fetch_shift_data", payload |-> <<>>]
               /\ result' = [status |-> out.status, body |-> out.body, rows |-> <<>>]
               /\ store' = out.store
               /\ UNCHANGED <<rates, last, previous, cache, uploaded_files>>

get_horizontal_bar_service ==
    /\ ops < MaxCalls
    /\ \E payload \in HorizontalBarPayloads :
           LET out == horizontal_bar(store, payload.start_month, payload.end_month,
                                     payload.top)
           IN  \E body \in (IF out.status = 200
                            THEN horizontal_results(out.output, payload.top)
                            ELSE {<<>>}) :
                   /\ ops' = ops + 1
                   /\ call' = [service |-> "horizontal_bar", payload |-> payload]
                   /\ result' = [status |-> out.status, body |-> body, rows |-> <<>>]
                   /\ UNCHANGED <<store, rates, last, previous, cache, uploaded_files>>

export_filtered_excel ==
    /\ ops < MaxCalls
    /\ \E payload \in SearchPayloads : \E sr \in load_shift_rates(rates) :
           LET out == export_filtered(store, payload.client, payload.start_month,
                                      payload.end_month, sr)
           IN  /\ ops' = ops + 1
               /\ call' = [service |-> "search", payload |-> payload]
               /\ result' = [status |-> out.status, body |-> out.body, rows |-> <<>>]
               /\ UNCHANGED <<store, rates, last, previous, cache, uploaded_files>>

NextReport ==
    \/ get_horizontal_bar_service
    \/ export_filtered_excel
    \/ client_summary_service
    \/ client_comparison_service
    \/ get_graph_service
    \/ get_vertical_bar_service
    \/ fetch_shift_record
    \/ fetch_shift_data

SpecReport == InitReport /\ [][NextReport]_vars

(***************************************************************************)
(* A summary asked for twice: the second call has the payload of the       *)
(* first and reads the same store and rate table; its query may return     *)
(* the rows in another order.                                              *)
(***************************************************************************)
MaxRepeats == 1   \* repeated calls after the first call

client_summary_service_again ==
    /\ ops >= MaxCalls
    /\ ops < MaxCalls + MaxRepeats
    /\ call.service = "summary"
    /\ LET plan == ResolveSummary(store, call.payload)
       IN  \E rows \in (IF plan.status = 200
                        THEN Orders(SummaryRows(store, rates, call.payload, plan))
                        ELSE {<<>>}) :
               /\ ops' = ops + 1
               /\ previous' = result
               /\ result' = client_summary(store, rates, call.payload, rows)
               /\ UNCHANGED <<store, rates, last, call, cache, uploaded_files>>

NextRepeat ==
    \/ client_summary_service
    \/ client_summary_service_again

SpecRepeat == InitReport /\ [][NextRepeat]_vars

(***************************************************************************)
(* The summary in binary64.  client_summary_service turns days and rate    *)
(* into Python floats and adds the products up in the order of the rows.   *)
(* A float x >= 0 is held as <<hi, lo>> with x = (hi * Limb + lo) * 2^-44  *)
(* and lo < Limb; the values met here are below 2^13, so that their 53     *)
(* significant bits end at or above 2^-44.                                 *)
(***************************************************************************)
Limb == 134217728   \* 2^27

\* The bits of hi * Limb + lo beyond the 53 a binary64 significand holds.
ExcessBits(hi) ==
    IF hi < Limb \div 2 THEN 0
    ELSE IF hi < Limb THEN 1
    ELSE IF hi < 2 * Limb THEN 2
    ELSE 3

\* Rounding to nearest, ties to even, of the exact value hi * Limb + lo.
round_binary64(hi, lo) ==
    LET step == 2 ^ ExcessBits(hi)
        r == lo % step
        down == lo - r
        to_even == (down \div step) % 2 = 0
        kept == IF 2 * r < step \/ (2 * r = step /\ to_even) THEN down ELSE down + step
    IN  IF kept = Limb THEN <<hi + 1, 0>> ELSE <<hi, kept>>

\* x + y on floats.
float_add(x, y) ==
    LET lo == x[2] + y[2]
    IN  round_binary64(x[1] + y[1] + lo \div Limb, lo % Limb)

\* float(days) * float(amt) for one or two whole days, days being counted in
\* halves: 1.0 * x and 2.0 * x are exact.
float_mul(days, amt) == IF days = 2 THEN amt ELSE float_add(amt, amt)

Zero64 == <<0, 0>>

\* Lines 240-291 on floats: PopulateRow with binary64 sums.
PopulateRow64(response, row, period_key) ==
    LET zeros == [k \in ShiftKeys |-> Zero64]
        month_block == IF "message" \in DOMAIN response[period_key]
                       THEN [clients |-> <<>>,
                             month_total |-> [total_head_count |-> 0, sub |-> zeros,
                                              total_allowance |-> Zero64]]
                       ELSE response[period_key]
        client_key == OrEmptyStrip(row.client)
        dept_key == OrEmptyStrip(row.department)
        stype == row.shift_type
        total == float_mul(row.days, row.amount)
        client_block == GetOr(month_block.clients, client_key,
                              [sub |-> zeros, departments |-> <<>>,
                               client_head_count |-> 0, client_total |-> Zero64])
        dept_block == GetOr(client_block.departments, dept_key,
                            [sub |-> zeros, dept_total |-> Zero64, employees |-> <<>>,
                             dept_head_count |-> 0])
        fresh == IsNewEmployee(dept_block.employees, row.emp_id)
        one == IF fresh THEN 1 ELSE 0
        employees == IF fresh
                     THEN Append(dept_block.employees,
                                 [emp_id |-> row.emp_id, sub |-> zeros, total |-> Zero64])
                     ELSE dept_block.employees
        i == CHOOSE j \in 1..Len(employees) : employees[j].emp_id = row.emp_id
        dept1 == [dept_block EXCEPT
                    !.employees = [employees EXCEPT
                                     ![i].sub[stype] = float_add(@, total),
                                     ![i].total = float_add(@, total)],
                    !.dept_head_count = @ + one,
                    !.sub[stype] = float_add(@, total),
                    !.dept_total = float_add(@, total)]
        client1 == [client_block EXCEPT
                      !.departments = Put(client_block.departments, dept_key, dept1),
                      !.client_head_count = @ + one,
                      !.sub[stype] = float_add(@, total),
                      !.client_total = float_add(@, total)]
        month1 == [month_block EXCEPT
                     !.clients = Put(month_block.clients, client_key, client1),
                     !.month_total.total_head_count = @ + one,
                     !.month_total.sub[stype] = float_add(@, total),
                     !.month_total.total_allowance = float_add(@, total)]
    IN  [response EXCEPT ![period_key] = month1]

\* Lines 230-291 over the first n rows of a request by months; the rows'
\* shift types are among A, B, C, PRIME.
RECURSIVE Populate64(_, _, _)
Populate64(response, rows, n) ==
    IF n = 0 THEN response
    ELSE PopulateRow64(Populate64(response, rows, n - 1), rows[n],
                       month_key_from_date(rows[n].duration_month))

\* client_summary_service, on floats, for a request of every client by months.
client_summary64(st, rt, payload, rows) ==
    LET plan == ResolveSummary(st, payload)
    IN  IF plan.status # 200 THEN [status |-> plan.status, body |-> <<>>, rows |-> <<>>]
        ELSE [status |-> 200,
              body |-> Populate64(Skeleton(payload, plan), rows, Len(rows)),
              rows |-> rows]

\* shifts_amount.amount is Numeric(10, 2): the floats of 333.33, 250.75 and
\* 410.10.
FloatRates ==
    {Rate("A", 2024, <<43690229, 102005473>>),
     Rate("B", 2024, <<32866304, 0>>),
     Rate("C", 2024, <<53752627, 26843546>>)}

\* E1 worked one or two days in some of the shifts A, B and C in December
\* 2023, E2 one day in shift A.
FloatStores ==
    {{StoredRow("E1", "Acme", "IT", Dec23, Jan24, ms)} \cup other :
        ms \in {{Mapping(s, d[s]) : s \in on} :
                  on \in SUBSET {"A", "B", "C"}, d \in [{"A", "B", "C"} -> {2, 4}]},
        other \in {{}, {StoredRow("E2", "Acme", "HR", Dec23, Jan24, {Mapping("A", 2)})}}}

FloatPayloads ==
    {SummaryPayload(ClientsAll, pd) :
        pd \in {Period(<<>>, <<>>, <<>>, <<2023, 12>>, <<2023, 12>>),
                Period(<<>>, <<>>, <<>>, NoKey, NoKey),
                Period(<<>>, <<>>, <<>>, <<2023, 12>>, <<2023, 11>>)}}

InitFloat ==
    /\ store \in FloatStores
    /\ rates = FloatRates
    /\ last = [op |-> "none", status |-> 0, row |-> <<>>, existed |-> FALSE,
               skipped |-> FALSE]
    /\ ops = 0
    /\ call = NoCall
    /\ result = NoResult
    /\ previous = NoResult
    /\ cache = NoKey
    /\ uploaded_files = <<>>

\* A summary, and the same summary asked for again.
client_summary_service_float ==
    /\ ops < MaxCalls + MaxRepeats
    /\ \E payload \in (IF ops = 0 THEN FloatPayloads ELSE {call.payload}) :
           LET plan == ResolveSummary(store, payload)
           IN  \E rows \in (IF plan.status = 200
                            THEN Orders(SummaryRows(store, rates, payload, plan))
                            ELSE {<<>>}) :
                   /\ ops' = ops + 1
                   /\ call' = [service |-> "summary", payload |-> payload]
                   /\ previous' = result
                   /\ result' = client_summary64(store, rates, payload, rows)
                   /\ UNCHANGED <<store, rates, last, cache, uploaded_files>>

SpecFloat == InitFloat /\ [][client_summary_service_float]_vars

(***************************************************************************)
(* Properties of the store operations, checked under Spec.                 *)
(***************************************************************************)
\* C6: after any sequence of uploads and corrections the store holds at most
\* one shift_allowances row for an employee, duration month and payroll month.
C6_OneRowPerTriple ==
    \A r1, r2 \in store : SameTriple(r1, r2) => r1 = r2

\* The non-zero shift days of an Excel row, as <<shift type, days>> pairs.
NonZeroDays(row) == {<<k, row.days[k]>> : k \in {c \in ShiftKeys : row.days[c] > 0}}

\* C7: an upload of valid rows whose last row names an employee, duration
\* month and payroll month already in the store succeeds, and afterwards the
\* store holds exactly one row for them, with exactly the non-zero shift days
\* of that row, whatever client the stored row and the new row name.  The
\* row's month cells are months.
C7_ReuploadReplaces ==
    (/\ last.op = "upload" /\ last.existed /\ ~last.skipped
     /\ MonthCellOk(last.row.duration_month) /\ MonthCellOk(last.row.payroll_month)) =>
        /\ last.status = 200
        /\ \E r \in store :
              /\ r.emp_id = last.row.emp_id
              /\ r.duration_month = parse_month_format(last.row.duration_month)
              /\ r.payroll_month = parse_month_format(last.row.payroll_month)
              /\ {<<m.shift_type, m.days>> : m \in r.shift_mappings} = NonZeroDays(last.row)
              /\ \A x \in store : SameTriple(x, r) => x = r

\* C8: every stored row that has both months has a payroll month later than
\* its duration month,
\* and an upload or correction whose row has a payroll month equal to or
\* earlier than its duration month is answered 400 and leaves no such row.
C8_PayrollAfterDuration ==
    /\ \A r \in store : (r.duration_month # NoDate /\ r.payroll_month # NoDate)
                             => r.payroll_month > r.duration_month
    /\ (/\ last.op = "upload"
        /\ MonthCellOk(last.row.duration_month) /\ MonthCellOk(last.row.payroll_month)
        /\ parse_month_format(last.row.payroll_month)
              <= parse_month_format(last.row.duration_month))
       => last.status = 400
    /\ (/\ last.op = "correct" /\ "emp_id" \in DOMAIN last.row
        /\ MonthCellOk(last.row.duration_month) /\ MonthCellOk(last.row.payroll_month)
        /\ parse_mon_yy(last.row.payroll_month) <= parse_mon_yy(last.row.duration_month))
       => last.status = 400

(***************************************************************************)
(* Properties of the reporting services, checked under SpecReport.         *)
(***************************************************************************)
SummaryReturned == call.service = "summary" /\ result.status = 200
ComparisonReturned == call.service = "comparison" /\ result.status = 200

Sub4(node) == Sum4(node.sub)

\* The periods of a summary response that have data.
DataPeriods(response) == {p \in DOMAIN response : "clients" \in DOMAIN response[p]}

EmployeeTotals(dept) ==
    SumSet([i \in 1..Len(dept.employees) |-> dept.employees[i].total],
           1..Len(dept.employees))

Conserved(response) ==
    \A p \in DataPeriods(response) :
        LET clients == response[p].clients
        IN  /\ response[p].month_total.total_allowance
                 = SumSet([c \in DOMAIN clients |-> clients[c].client_total], DOMAIN clients)
            /\ \A c \in DOMAIN clients :
                  LET depts == clients[c].departments
                  IN  /\ clients[c].client_total
                           = SumSet([d \in DOMAIN depts |-> depts[d].dept_total], DOMAIN depts)
                      /\ \A d \in DOMAIN depts : depts[d].dept_total = EmployeeTotals(depts[d])

\* The summary response after the first n rows of the last call.
ResponseAfter(n) ==
    LET plan == ResolveSummary(store, call.payload)
    IN  Populate(Skeleton(call.payload, plan), result.rows, n, plan.quarter_map,
                 call.payload.selected_quarters # <<>>)

EmployeeIds(dept) == {dept.employees[i].emp_id : i \in 1..Len(dept.employees)}
ClientEmployeeIds(client) ==
    UNION {EmployeeIds(client.departments[d]) : d \in DOMAIN client.departments}

\* C2: at the department, the client and the period of a summary, the head
\* count is the number of distinct employees among the entries below.
C2_HeadCountsDistinct ==
    SummaryReturned =>
        \A p \in DataPeriods(result.body) :
            LET clients == result.body[p].clients
            IN  /\ result.body[p].month_total.total_head_count
                     = Cardinality(UNION {ClientEmployeeIds(clients[c]) : c \in DOMAIN clients})
                /\ \A c \in DOMAIN clients :
                      /\ clients[c].client_head_count
                           = Cardinality(ClientEmployeeIds(clients[c]))
                      /\ \A d \in DOMAIN clients[c].departments :
                            clients[c].departments[d].dept_head_count
                              = Cardinality(EmployeeIds(clients[c].departments[d]))

\* C3: in the comparison and in the summary, the total allowance of every
\* employee, department and period node is the sum of its A, B, C and PRIME
\* subtotals, whatever label the stored mappings that have a rate carry.
C3_TotalIsSumOfShifts ==
    /\ ComparisonReturned =>
          \A k \in DOMAIN result.body.months :
              LET month == result.body.months[k]
              IN  /\ month.vertical_total.total_allowance = Sub4(month.vertical_total)
                  /\ "depts" \in DOMAIN month =>
                        \A d \in DOMAIN month.depts :
                            /\ month.depts[d].total_allowance = Sub4(month.depts[d])
                            /\ \A e \in DOMAIN month.depts[d].emp :
                                  month.depts[d].emp[e].total_allowance
                                    = Sub4(month.depts[d].emp[e])
    /\ SummaryReturned =>
          \A p \in DataPeriods(result.body) :
              LET clients == result.body[p].clients
              IN  /\ result.body[p].month_total.total_allowance
                       = Sub4(result.body[p].month_total)
                  /\ \A c \in DOMAIN clients :
                        /\ clients[c].client_total = Sub4(clients[c])
                        /\ \A d \in DOMAIN clients[c].departments :
                              LET dept == clients[c].departments[d]
                              IN  /\ dept.dept_total = Sub4(dept)
                                  /\ \A i \in 1..Len(dept.employees) :
                                        dept.employees[i].total = Sub4(dept.employees[i])

\* The periods a summary request resolves to.
ResolvedPeriods(plan) ==
    {month_key_from_date(d) : d \in SeqToSet(plan.months)} \cup DOMAIN plan.quarter_map

\* C4: every period a request resolves to is a top-level key of the result:
\* of the summary for a range, months, quarters or an accepted combination of
\* them, and of the comparison for every month of its range.
C4_EveryPeriodPresent ==
    /\ SummaryReturned =>
          ResolvedPeriods(ResolveSummary(store, call.payload)) \subseteq DOMAIN result.body
    /\ ComparisonReturned =>
          LET range == ResolveComparison(store, call.payload.client_name,
                                         call.payload.start_month, call.payload.end_month)
          IN  \A d \in range.start_date..range.end_date :
                  month_key_from_date(d) \in DOMAIN result.body.months

\* C5: with a mapping of clients to departments as the filter, every listed
\* client and every listed department of it is in every period of the summary.
C5_ListedClientsInEveryPeriod ==
    (SummaryReturned /\ call.payload.clients.kind = "dict") =>
        \A p \in DOMAIN result.body :
            /\ "clients" \in DOMAIN result.body[p]
            /\ \A c \in DOMAIN call.payload.clients.map :
                  /\ c \in DOMAIN result.body[p].clients
                  /\ \A d \in SeqToSet(call.payload.clients.map[c]) :
                        d \in DOMAIN result.body[p].clients[c].departments

\* The months of the range of the last comparison call, as dates.
RangeOfCall ==
    ResolveComparison(store, call.payload.client_name, call.payload.start_month,
                      call.payload.end_month)

\* The total a month, or a department of a month, has in a comparison result:
\* zero for a placeholder month and for a department the month does not have.
MonthTotalOf(body, k) == body.months[k].vertical_total.total_allowance

DeptTotalOf(body, k, d) ==
    IF "depts" \in DOMAIN body.months[k] /\ d \in DOMAIN body.months[k].depts
    THEN body.months[k].depts[d].total_allowance
    ELSE 0

\* C9: in a comparison, for every month with data after the first of the
\* range, the month_total_diff and every department's diff are the month's
\* total less the total of the calendar month before it, a month or
\* department without data counting as zero.
C9_DiffAgainstPrecedingMonth ==
    ComparisonReturned =>
        \A d \in (RangeOfCall.start_date + 1)..RangeOfCall.end_date :
            LET k == month_key_from_date(d)
                prev == month_key_from_date(d - 1)
                month == result.body.months[k]
            IN  "depts" \in DOMAIN month =>
                    /\ month.vertical_total.month_total_diff
                         = MonthTotalOf(result.body, k) - MonthTotalOf(result.body, prev)
                    /\ \A dept \in DOMAIN month.depts :
                          month.depts[dept].diff
                            = month.depts[dept].total_allowance
                              - DeptTotalOf(result.body, prev, dept)

\* C10: in a comparison, the first month of the range carries a
\* month_total_diff of 0 and a diff of 0 on each of its departments, whether
\* it has data or is a placeholder.
C10_FirstMonthDeltaZero ==
    ComparisonReturned =>
        LET month == result.body.months[month_key_from_date(RangeOfCall.start_date)]
        IN  /\ "month_total_diff" \in DOMAIN month.vertical_total
            /\ month.vertical_total.month_total_diff = 0
            /\ "depts" \in DOMAIN month =>
                  \A dept \in DOMAIN month.depts : month.depts[dept].diff = 0

\* The rate stored for a shift type and a payroll year, 0 when there is none.
RateFor(rt, shift_type, year) ==
    IF \E x \in rt : x.shift_type = shift_type /\ x.payroll_year = year
    THEN (CHOOSE x \in rt : x.shift_type = shift_type /\ x.payroll_year = year).amount
    ELSE 0

\* The allowance of stored rows: for each mapping, its days times the rate of
\* its shift type in the year of the row's payroll month.
AllowanceOf(rt, rows) ==
    SumSet([r \in rows |->
               SumSet([m \in r.shift_mappings |->
                          IF r.payroll_month = NoDate THEN 0
                          ELSE m.days * RateFor(rt, m.shift_type, YearOf(r.payroll_month))],
                      r.shift_mappings)],
           rows)

\* The stored rows a summary request selects for a period.
SummaryStoreRows(payload, plan, p) ==
    {r \in store : /\ r.duration_month # NoDate
                   /\ ClientFilter(r, plan.normalized)
                   /\ DateFilter(r, payload, plan)
                   /\ PeriodKeyOf(r, plan.quarter_map, payload.selected_quarters # <<>>) = p}

\* C11: the total every reporting service returns for a period is the sum,
\* over the stored rows of the period and their mappings, of days times the
\* rate of (shift type, year of the row's payroll month): in the summary, the
\* comparison, the graph and the vertical bar alike.
C11_RateOfPayrollYear ==
    /\ SummaryReturned =>
          LET plan == ResolveSummary(store, call.payload)
          IN  \A p \in DataPeriods(result.body) :
                  result.body[p].month_total.total_allowance
                    = AllowanceOf(rates, SummaryStoreRows(call.payload, plan, p))
    /\ ComparisonReturned =>
          \A k \in DOMAIN result.body.months :
              result.body.months[k].vertical_total.total_allowance
                = AllowanceOf(rates, MonthRecords(store, call.payload.client_name, KeyDate(k)))
    /\ (call.service = "graph" /\ result.status = 200) =>
          LET months == SeqToSet(graph_months(call.payload.start_month,
                                              call.payload.end_month).months)
          IN  \A d \in months :
                  result.body.graph[MonthOf(d)]
                    = AllowanceOf(rates, MonthRecords(store, call.payload.client_name, d))
    /\ (call.service = "vertical_bar" /\ result.status = 200) =>
          LET months == SeqToSet(vertical_months(store, call.payload.start_month,
                                                 call.payload.end_month).months)
          IN  \A i \in 1..Len(result.body) :
                  result.body[i].total_allowances
                    = AllowanceOf(rates,
                                  {r \in UNION {MonthRecords(store, NULL, d) : d \in months} :
                                      r.client = result.body[i].client_enum})

\* The rows of the last summary call that fall in period p, as
\* <<client, department, employee>> triples.
RowGroups(p) ==
    LET plan == ResolveSummary(store, call.payload)
        by_quarter == call.payload.selected_quarters # <<>>
    IN  {<<OrEmptyStrip(result.rows[i].client), OrEmptyStrip(result.rows[i].department),
           result.rows[i].emp_id>> :
            i \in {j \in 1..Len(result.rows) :
                      PeriodKeyOf(result.rows[j], plan.quarter_map, by_quarter) = p}}

\* C12: in a summary, an employee with several shift rows in one client,
\* department and period has exactly one employee entry there and counts once
\* in the department's, the client's and the period's head count: the counts
\* are the numbers of distinct employees per department below them.
C12_OneEntryPerEmployee ==
    SummaryReturned =>
        \A p \in DataPeriods(result.body) :
            LET clients == result.body[p].clients
                groups == RowGroups(p)
            IN  /\ result.body[p].month_total.total_head_count = Cardinality(groups)
                /\ \A c \in DOMAIN clients :
                      /\ clients[c].client_head_count
                           = Cardinality({g \in groups : g[1] = c})
                      /\ \A d \in DOMAIN clients[c].departments :
                            LET dept == clients[c].departments[d]
                                emps == {g[3] : g \in {x \in groups : x[1] = c /\ x[2] = d}}
                            IN  /\ dept.dept_head_count = Cardinality(emps)
                                /\ EmployeeIds(dept) = emps
                                /\ Len(dept.employees) = Cardinality(emps)

\* A summary returned over a shift A row and a shift B row of one employee in
\* one client, department and month.
C12_Witness ==
    /\ SummaryReturned
    /\ \E i, j \in 1..Len(result.rows) :
          /\ result.rows[i].shift_type = "A" /\ result.rows[j].shift_type = "B"
          /\ result.rows[i].emp_id = result.rows[j].emp_id
          /\ result.rows[i].client = result.rows[j].client
          /\ result.rows[i].department = result.rows[j].department
          /\ result.rows[i].duration_month = result.rows[j].duration_month

(***************************************************************************)
(* Properties of a repeated summary, checked under SpecRepeat for whole     *)
(* amounts and under SpecFloat for amounts with cents.                     *)
(***************************************************************************)
\* The nested totals and head counts of a summary response; the employee
\* entries of a department are taken as a set.
TotalsOf(response) ==
    [p \in DOMAIN response |->
        IF "clients" \notin DOMAIN response[p] THEN response[p]
        ELSE [month_total |-> response[p].month_total,
              clients |->
                [c \in DOMAIN response[p].clients |->
                    LET client == response[p].clients[c]
                    IN  [sub |-> client.sub,
                         client_total |-> client.client_total,
                         client_head_count |-> client.client_head_count,
                         departments |->
                           [d \in DOMAIN client.departments |->
                               LET dept == client.departments[d]
                               IN  [sub |-> dept.sub,
                                    dept_total |-> dept.dept_total,
                                    dept_head_count |-> dept.dept_head_count,
                                    marked |-> "error" \in DOMAIN dept,
                                    employees |-> {dept.employees[i] :
                                                     i \in 1..Len(dept.employees)}]]]]]]

Repeated == call.service = "summary" /\ ops = MaxCalls + MaxRepeats

\* C13: a second run of the summary on the same store, rate table and payload
\* ends as the first run did and, when it returns, returns the same nested
\* totals and head counts, whatever order either query returned its rows in.
C13_SameTotalsOnRerun ==
    Repeated =>
        /\ result.status = previous.status
        /\ result.status = 200 => TotalsOf(result.body) = TotalsOf(previous.body)

(***************************************************************************)
(* Properties of the operations that read, checked under SpecReport.       *)
(***************************************************************************)
ReadServices == {"summary", "comparison", "fetch_shift_record", "fetch_shift_data"}

\* C14: a call of client_summary_service, client_comparison_service,
\* fetch_shift_record or fetch_shift_data leaves the stored rows, the stored
\* total_allowance of every mapping and the rate table as they were.
C14_ReadsLeaveStore ==
    [][call'.service \in ReadServices => store' = store /\ rates' = rates]_vars
(***************************************************************************)
(* Properties of the validations, checked under SpecReport.                *)
(***************************************************************************)
\* C15: a summary whose payload has a selected_year that is 0, negative or
\* after the current year is answered with 400, whatever other period fields
\* the payload has.
C15_BadYearRejected ==
    /\ call.service = "summary"
    /\ call.payload.selected_year # <<>>
    /\ YearRejected(call.payload.selected_year[1])
    => result.status = 400
\* A YYYY-MM text of a month after the current one.
FutureKey(k) == YearMonthOk(k) /\ parse_year_month(k) > CurrentMonth

\* C16: a summary for a range of months or for selected months of the current
\* year, a comparison and an employee search are answered with 400 when a
\* requested month is after the current month.
C16_FutureMonthsRejected ==
    LET p == call.payload
    IN  /\ call.service = "summary"
           /\ \/ FutureKey(p.start_month) \/ FutureKey(p.end_month)
              \/ /\ p.selected_year = <<YearOf(CurrentMonth)>>
                 /\ \E i \in 1..Len(p.selected_months) :
                        p.selected_months[i] > MonthOf(CurrentMonth)
           => result.status = 400
        /\ call.service \in {"comparison", "search"}
           /\ (FutureKey(p.start_month) \/ FutureKey(p.end_month))
           => result.status = 400
(***************************************************************************)
(* Properties of the default period, checked under SpecReport.             *)
(***************************************************************************)
NoPeriodCriteria(p) ==
    /\ p.selected_year = <<>>
    /\ p.selected_months = <<>>
    /\ p.selected_quarters = <<>>
    /\ p.start_month = NoKey
    /\ p.end_month = NoKey

\* C17: a summary without period criteria, for every client or for listed
\* clients, returns the one period of the latest duration_month of the store,
\* and is answered with 404 when the store has no rows.
C17_DefaultsToLatestMonth ==
    /\ call.service = "summary"
    /\ call.payload.clients.kind \in {"all", "dict"}
    /\ NoPeriodCriteria(call.payload)
    => IF store = {} THEN result.status = 404
       ELSE /\ result.status = 200
            /\ DOMAIN result.body = {month_key_from_date(latest_duration_month(store))}
(***************************************************************************)
(* Properties of the month ranges, checked under SpecReport.               *)
(***************************************************************************)
RangeServices == {"summary", "comparison", "search", "horizontal_bar"}

\* The request names two months, the first after the second.
StartAfterEnd(p) ==
    /\ YearMonthOk(p.start_month)
    /\ YearMonthOk(p.end_month)
    /\ parse_year_month(p.start_month) > parse_year_month(p.end_month)

\* C18: a summary, a comparison, an employee search and a horizontal bar
\* whose start_month is after its end_month are answered with 400 and
\* return nothing.
C18_StartAfterEndRejected ==
    call.service \in RangeServices /\ StartAfterEnd(call.payload)
    => result.status = 400 /\ result.body = <<>>

\* A search from 2024-01 to 2023-12 was rejected.
C18_Witness ==
    /\ call.service = "search"
    /\ StartAfterEnd(call.payload)
    /\ call.payload.start_month[1] > call.payload.end_month[1]
    /\ ~FutureKey(call.payload.start_month)
    /\ store # {}
    /\ result.status = 400
(***************************************************************************)
(* Properties of the writes, checked under Spec.                           *)
(***************************************************************************)
\* The stored mappings whose shift type has no row in the rate table.
UnratedMappings(st, rt) ==
    UNION {{<<r.emp_id, r.client, r.duration_month, r.payroll_month, m>> :
              m \in {x \in r.shift_mappings :
                        \A a \in rt : Upper(a.shift_type) # Upper(x.shift_type)}} :
           r \in st}

\* C19: an upload, a correction or an update stores no mapping of a shift
\* type that has no rate in the rate table.
C19_NoWriteWithoutRate ==
    [][UnratedMappings(store', rates') \subseteq UnratedMappings(store, rates)]_vars
(***************************************************************************)
(* Properties of the client filter, checked under SpecReport.              *)
(***************************************************************************)
\* The row's client is a key of the mapping, ignoring case, and its department
\* is in that key's list, ignoring case, or the list is empty.
ListedIn(r, m) ==
    /\ r.client # NULL
    /\ \E c \in DOMAIN m :
           /\ Lower(r.client) = Lower(c)
           /\ \/ m[c] = <<>>
              \/ /\ r.department # NULL
                 /\ \E i \in 1..Len(m[c]) : Lower(r.department) = Lower(m[c][i])

\* The employee entries of a summary response, each with its period, client
\* and department.
EntriesOf(response) ==
    UNION {UNION {UNION {{<<p, c, d, e>> :
                            e \in EmployeeIds(response[p].clients[c].departments[d])} :
                         d \in DOMAIN response[p].clients[c].departments} :
                  c \in DOMAIN response[p].clients} :
           p \in DataPeriods(response)}

\* C20: with a mapping of clients to departments, the employee entries of a
\* summary are those of the stored rows of the resolved periods whose client
\* and department are listed in the mapping, ignoring case; a client with an
\* empty list admits all its departments.
C20_ListedRowsExactly ==
    SummaryReturned /\ call.payload.clients.kind = "dict" =>
        LET plan == ResolveSummary(store, call.payload)
            by_quarter == call.payload.selected_quarters # <<>>
        IN  EntriesOf(result.body) =
                {<<PeriodKeyOf(r, plan.quarter_map, by_quarter), OrEmptyStrip(r.client),
                   OrEmptyStrip(r.department), r.emp_id>> :
                    r \in {x \in store : /\ x.duration_month # NoDate
                                         /\ DateFilter(x, call.payload, plan)
                                         /\ ListedIn(x, call.payload.clients.map)}}
(***************************************************************************)
(* Properties of corrections and updates, checked under Spec.              *)
(***************************************************************************)
\* The stored rows with a month after the current month.
FutureRows(st) ==
    {r \in st : r.duration_month > CurrentMonth \/ r.payroll_month > CurrentMonth}

\* C21: update_corrected_rows writes no row whose duration or payroll month
\* is after the current month, and update_shift_service answers a request
\* for such a month with 400 and writes nothing.
C21_FutureMonthsNotWritten ==
    [][/\ last'.op = "correct" => FutureRows(store') \subseteq FutureRows(store)
       /\ /\ last'.op = "update"
          /\ \/ FutureKey(last'.row.duration_month)
             \/ FutureKey(last'.row.payroll_month)
          => last'.status = 400 /\ store' = store]_vars
(***************************************************************************)
(* Properties of the periods of a summary, checked under SpecReport.       *)
(***************************************************************************)
\* C22: a summary whose selected_quarters has a label that is none of Q1 to
\* Q4 is answered with 400, also when the label follows valid ones and
\* whatever other period fields the payload has.
C22_InvalidQuarterRejected ==
    /\ call.service = "summary"
    /\ \E i \in 1..Len(call.payload.selected_quarters) :
           quarter_to_months(call.payload.selected_quarters[i]) = <<>>
    => result.status = 400
\* The request names a first month, not after the current one, and no last
\* month.
StartOnly(p) ==
    YearMonthOk(p.start_month) /\ ~FutureKey(p.start_month) /\ p.end_month = NoKey

\* C23: a summary and a comparison asked for with start_month and without
\* end_month return, and their only period is start_month.
C23_StartAloneIsOneMonth ==
    /\ /\ call.service = "summary"
       /\ call.payload.clients.kind \in {"all", "dict"}
       /\ StartOnly(call.payload)
       /\ call.payload.selected_months = <<>>
       /\ call.payload.selected_quarters = <<>>
       => /\ result.status = 200
          /\ DOMAIN result.body = {call.payload.start_month}
    /\ call.service = "comparison" /\ StartOnly(call.payload)
       => /\ result.status = 200
          /\ DOMAIN result.body.months = {call.payload.start_month}
\* C24: a summary by quarters has one key for each requested quarter, from
\* the quarter's first month to its last, and no other key; its employee
\* entries are those of the selected rows, each under the quarter that
\* contains the row's duration_month.
C24_QuartersPartitionRows ==
    /\ SummaryReturned
    /\ call.payload.selected_quarters # <<>>
    /\ call.payload.selected_year # <<>>
    => LET p == call.payload
           year == p.selected_year[1]
           KeyOf(q) == <<year, quarter_to_months(q)[1], year, quarter_to_months(q)[3]>>
           keys == {KeyOf(p.selected_quarters[i]) : i \in 1..Len(p.selected_quarters)}
           Within(d, k) == YearOf(d) = k[1] /\ MonthOf(d) \in k[2]..k[4]
           plan == ResolveSummary(store, p)
       IN  /\ DOMAIN result.body = keys
           /\ EntriesOf(result.body) =
                  UNION {{<<k, OrEmptyStrip(r.client), OrEmptyStrip(r.department), r.emp_id>> :
                            r \in {x \in store : /\ x.duration_month # NoDate
                                                 /\ Within(x.duration_month, k)
                                                 /\ ClientFilter(x, plan.normalized)}} :
                         k \in keys}
\* Lines 230-291 for the rows of the last call: the response before the
\* listed clients and departments are added.
BeforeZeroFill ==
    LET plan == ResolveSummary(store, call.payload)
    IN  Populate(Skeleton(call.payload, plan), result.rows, Len(result.rows),
                 plan.quarter_map, call.payload.selected_quarters # <<>>).response

\* C25: the zero-fill of a summary with a client mapping keeps the periods,
\* every month total, every client's and department's computed totals, head
\* counts and employee lists, and what it adds are clients with zero totals,
\* zero head count and only placeholder departments, and placeholder
\* departments with zero totals and no employee.
C25_ZeroFillAddsOnlyPlaceholders ==
    /\ SummaryReturned
    /\ call.payload.clients.kind = "dict"
    => LET pre == BeforeZeroFill
           post == result.body
           ZeroClient(b) == /\ b.sub = empty_shift_totals
                            /\ b.client_total = 0
                            /\ b.client_head_count = 0
       IN  /\ DOMAIN post = DOMAIN pre
           /\ EntriesOf(post) = EntriesOf(pre)
           /\ \A p \in DOMAIN pre :
                  IF "clients" \notin DOMAIN pre[p] THEN post[p] = pre[p]
                  ELSE /\ post[p].month_total = pre[p].month_total
                       /\ DOMAIN pre[p].clients \subseteq DOMAIN post[p].clients
                       /\ \A c \in DOMAIN post[p].clients :
                              LET new == c \notin DOMAIN pre[p].clients
                                  was == IF new THEN NewClientBlock ELSE pre[p].clients[c]
                                  now == post[p].clients[c]
                              IN  /\ new => ZeroClient(now)
                                  /\ now.sub = was.sub
                                  /\ now.client_total = was.client_total
                                  /\ now.client_head_count = was.client_head_count
                                  /\ DOMAIN was.departments \subseteq DOMAIN now.departments
                                  /\ \A d \in DOMAIN now.departments :
                                         IF d \in DOMAIN was.departments
                                         THEN now.departments[d] = was.departments[d]
                                         ELSE now.departments[d] = NoDataDeptBlock

\* A summary in which a listed department without rows stands next to a
\* department with employees, and a listed client without rows next to both.
C25_Witness ==
    /\ SummaryReturned
    /\ call.payload.clients.kind = "dict"
    /\ \E p \in DOMAIN result.body :
          /\ "clients" \in DOMAIN result.body[p]
          /\ \E c, e \in DOMAIN result.body[p].clients :
                /\ result.body[p].clients[e].departments = <<>>
                /\ result.body[p].clients[e].client_total = 0
                /\ \E d, f \in DOMAIN result.body[p].clients[c].departments :
                      /\ result.body[p].clients[c].departments[d] = NoDataDeptBlock
                      /\ result.body[p].clients[c].departments[f].employees # <<>>
\* A request that passes every check of update_shift_service before the
\* checks of the day totals (lines 189-247).
PassesMonthChecks(req) ==
    /\ DOMAIN req.updates \subseteq UpdateFields
    /\ \A k \in DOMAIN req.updates : ~ShiftValueRejected(req.updates[k])
    /\ YearMonthOk(req.payroll_month)
    /\ YearMonthOk(req.duration_month)
    /\ ~FutureKey(req.duration_month)
    /\ ~FutureKey(req.payroll_month)
    /\ parse_year_month(req.payroll_month) > parse_year_month(req.duration_month)

\* C27: an update_shift_service call that ends in 400 over the day total of
\* the duration month leaves the store as it was.
C27_DayLimitFailureWritesNothing ==
    [][/\ last'.op = "update"
       /\ last'.status = 400
       /\ PassesMonthChecks(last'.row)
       => store' = store]_vars
\* C28: update_shift_service changes no record but the one of the request's
\* emp_id, duration_month and payroll_month, and a request that passes the
\* checks of its months when the store has no record of that triple changes
\* nothing and ends in 404 (or in 400 over the day total of the request).
C28_UpdateTouchesOnlyTheTriple ==
    [][last'.op = "update" =>
         LET req == last'.row
             Exact(r) == /\ YearMonthOk(req.duration_month)
                         /\ YearMonthOk(req.payroll_month)
                         /\ r.emp_id = req.emp_id
                         /\ r.duration_month = parse_year_month(req.duration_month)
                         /\ r.payroll_month = parse_year_month(req.payroll_month)
         IN  /\ \A r \in store \ store' : Exact(r)
             /\ (PassesMonthChecks(req) /\ ~\E r \in store : Exact(r))
                => store' = store /\ last'.status \in {400, 404}]_vars
\* C29: in a summary with a client mapping, a department entry has the error
\* marker only when no row of that client and department, compared without
\* regard to case, was added to the period, and no two client keys of a
\* period, and no two department keys of a client, differ by case only.
C29_MarkerOnlyWithoutData ==
    /\ SummaryReturned
    /\ call.payload.clients.kind = "dict"
    => LET plan == ResolveSummary(store, call.payload)
           by_quarter == call.payload.selected_quarters # <<>>
           RowsOf(p, c, d) ==
               {i \in 1..Len(result.rows) :
                   /\ PeriodKeyOf(result.rows[i], plan.quarter_map, by_quarter) = p
                   /\ Lower(OrEmptyStrip(result.rows[i].client)) = Lower(c)
                   /\ Lower(OrEmptyStrip(result.rows[i].department)) = Lower(d)}
       IN  \A p \in DOMAIN result.body :
               "clients" \in DOMAIN result.body[p] =>
                   LET cs == result.body[p].clients
                   IN  /\ \A c, e \in DOMAIN cs : Lower(c) = Lower(e) => c = e
                       /\ \A c \in DOMAIN cs :
                              /\ \A d, f \in DOMAIN cs[c].departments :
                                     Lower(d) = Lower(f) => d = f
                              /\ \A d \in DOMAIN cs[c].departments :
                                     "error" \in DOMAIN cs[c].departments[d]
                                         => RowsOf(p, c, d) = {}
\* C26: when process_excel_upload or update_corrected_rows writes a row whose
\* duration month is not earlier than the month of the cached entry, the
\* entry is gone after the call.
C26_IngestionInvalidatesCache ==
    [][(/\ last'.op \in {"upload", "correct"}
        /\ YearMonthOk(cache)
        /\ \E r \in store' \ store :
               (/\ r.duration_month # NoDate
                /\ r.duration_month >= MonthDate(cache[1], cache[2])))
       => cache' = NoKey]_vars

\* C30: no uploaded_files row is left with the status processing by a
\* process_excel_upload call that has returned or raised.
C30_UploadEndsInTerminalStatus ==
    \A i \in 1..Len(uploaded_files) : uploaded_files[i] \in {"processed", "failed"}
====
